---- MODULE Spec2Model ----
(***************************************************************************)
(* A model of homebrew-tui's interactive core (src/src/app.rs): the App    *)
(* state, the events background threads post on the mpsc channel, the      *)
(* event handling of App::handle_event and of the drain in App::run, the   *)
(* mode-specific key handling of App::run, and the operation runner        *)
(* threads spawned when a Confirm is accepted.                             *)
(*                                                                         *)
(* Strings are sequences of characters (one-character TLA+ strings); a     *)
(* fixed piece of a format! template that holds neither a digit nor '%'    *)
(* is written as one token ("Started: ").  Option<T> is a sequence of      *)
(* length 0 (None) or 1 (Some).  Indices are 0-based as in the source; a   *)
(* Vec v is a sequence and v[i] of the source is v[i + 1] here.            *)
(***************************************************************************)
EXTENDS Integers, Sequences, FiniteSets, TLC

VARIABLES
    app,      \* the App struct: a record of its fields (see AppNew)
    chan,     \* the mpsc channel: the events sent and not yet received, in order
    threads,  \* the background threads spawned so far, in spawn order
    pc,       \* where the main thread is (see the specifications below)
    keys,     \* history: the number of key events handled so far
    last      \* history: Some(event or key) after a step that handled it, else None

vars == <<app, chan, threads, pc, keys, last>>

----------------------------------------------------------------------------
(* Option<T> *)
None == <<>>
Some(x) == <<x>>

(* Characters *)
Digits == <<"0", "1", "2", "3", "4", "5", "6", "7", "8", "9">>
DigitSet == {"0", "1", "2", "3", "4", "5", "6", "7", "8", "9"}
IsDigit(c) == c \in DigitSet
DigitVal(c) ==
    CASE c = "0" -> 0 [] c = "1" -> 1 [] c = "2" -> 2 [] c = "3" -> 3 [] c = "4" -> 4
      [] c = "5" -> 5 [] c = "6" -> 6 [] c = "7" -> 7 [] c = "8" -> 8 [] c = "9" -> 9

(* The width of u16, the type parse_percent parses the digits into *)
U16Max == 65535

(* str::parse::<u16>() of a string of ASCII digits: Ok(v) as <<v>>, Err as  *)
(* <<>> (the empty string, or a value above u16::MAX).                      *)
RECURSIVE DigitsValue(_)
DigitsValue(ds) ==
    IF ds = <<>> THEN 0
    ELSE 10 * DigitsValue(SubSeq(ds, 1, Len(ds) - 1)) + DigitVal(ds[Len(ds)])
ParseU16(ds) ==
    IF ds = <<>> THEN None
    ELSE IF DigitsValue(ds) > U16Max THEN None
    ELSE Some(DigitsValue(ds))

(* format!("{}", n) for n >= 0 *)
RECURSIVE Dec(_)
Dec(n) == IF n < 10 THEN <<Digits[n + 1]>> ELSE Dec(n \div 10) \o <<Digits[(n % 10) + 1]>>

(* str::find(c): the 0-based position of the first c, as an Option *)
Find(s, c) ==
    IF \E i \in 1..Len(s) : s[i] = c
    THEN Some((CHOOSE i \in 1..Len(s) : s[i] = c /\ \A j \in 1..(i - 1) : s[j] # c) - 1)
    ELSE None

(* Iterator::filter on the characters of a string *)
RECURSIVE FilterChars(_, _)
FilterChars(s, keep) ==
    IF s = <<>> THEN <<>>
    ELSE (IF Head(s) \in keep THEN <<Head(s)>> ELSE <<>>) \o FilterChars(Tail(s), keep)

(* The digits scanned leftwards from 0-based position i (inclusive) of s   *)
RECURSIVE DigitsBefore(_, _)
DigitsBefore(s, i) ==
    IF i < 0 THEN <<>>
    ELSE IF IsDigit(s[i + 1]) THEN DigitsBefore(s, i - 1) \o <<s[i + 1]>>
    ELSE <<>>

(* App::parse_percent *)
PctCap == 100
parse_percent(s) ==
    IF Find(s, "%") = None THEN None
    ELSE LET pos == Find(s, "%")[1]
             digits == DigitsBefore(s, pos - 1)
         IN IF digits = <<>> THEN None
            ELSE IF ParseU16(digits) = None THEN None
            ELSE Some(IF ParseU16(digits)[1] > PctCap THEN PctCap ELSE ParseU16(digits)[1])

(* The percentage parsing inlined in App::run's drain of OpLog: the window *)
(* of up to PctWindow characters before the first '%', its digits joined.  *)
PctWindow == 4
RunPercent(s) ==
    IF Find(s, "%") = None THEN None
    ELSE LET pct_pos == Find(s, "%")[1]
             start == IF pct_pos >= PctWindow THEN pct_pos - PctWindow ELSE 0
             candidate == SubSeq(s, start + 1, pct_pos + 1)
             filtered == FilterChars(candidate, DigitSet \cup {"%"})
             digits == FilterChars(filtered, DigitSet)
         IN IF filtered = <<>> \/ filtered[Len(filtered)] # "%" THEN None
            ELSE IF ParseU16(digits) = None THEN None
            ELSE Some(IF ParseU16(digits)[1] > PctCap THEN PctCap ELSE ParseU16(digits)[1])

(* The percentage of an OpLog line: by parse_percent in handle_event, by   *)
(* the inlined parsing in run                                              *)
LinePercent(line, inRun) == IF inRun THEN RunPercent(line) ELSE parse_percent(line)

----------------------------------------------------------------------------
(* App::push_log, on the value of App.logs *)
LogCap == 300
LogDrain == 100
push_log_at_cap(l, s) ==
    LET pushed == Append(l, s)
    IN IF Len(pushed) >= LogCap THEN SubSeq(pushed, LogDrain + 1, Len(pushed)) ELSE pushed
push_log(l, s) ==
    LET pushed == Append(l, s)
    IN IF Len(pushed) > LogCap THEN SubSeq(pushed, LogDrain + 1, Len(pushed)) ELSE pushed

(* The push and drain of the Operation modal's logs in the OpLog handler *)
OpLogCap == 2000
OpLogDrain == 500
OpLogPushNoClamp(m, line) ==
    LET pushed == Append(m.logs, line)
        drained == SubSeq(pushed, OpLogDrain + 1, Len(pushed))
    IN IF Len(pushed) > OpLogCap
       THEN [m EXCEPT !.logs = drained]
       ELSE [m EXCEPT !.logs = pushed]
OpLogPush(m, line) ==
    LET pushed == Append(m.logs, line)
        drained == SubSeq(pushed, OpLogDrain + 1, Len(pushed))
    IN IF Len(pushed) > OpLogCap
       THEN [m EXCEPT !.logs = drained,
                      !.scroll = IF m.scroll > Len(drained) THEN Len(drained) ELSE m.scroll]
       ELSE [m EXCEPT !.logs = pushed]

(* The filter_map over available_items: the 0-based indices of the names   *)
(* that contain the filter (str::contains)                                 *)
Contains(name, f) ==
    \E i \in 0..(Len(name) - Len(f)) : SubSeq(name, i + 1, i + Len(f)) = f
RECURSIVE FilterFrom(_, _, _)
FilterFrom(av, f, i) ==
    IF i >= Len(av) THEN <<>>
    ELSE (IF Contains(av[i + 1], f) THEN <<i>> ELSE <<>>) \o FilterFrom(av, f, i + 1)
FilterIndices(av, f) == FilterFrom(av, f, 0)

(* (0..n).collect() *)
IdentityInclusive(n) == [i \in 1..(n + 1) |-> i - 1]
Identity(n) == [i \in 1..n |-> i - 1]

----------------------------------------------------------------------------
(* Focus, Mode, ConfirmAction, InputAction, FormulaInfo and AppEvent        *)
Installed == "Installed"
Available == "Available"

Normal == [tag |-> "Normal"]
Help == [tag |-> "Help"]
Input(action, buffer) == [tag |-> "Input", action |-> action, buffer |-> buffer]
ConfirmNoIdx(action, name, idx) ==
    [tag |-> "Confirm", action |-> action, name |-> name, idx |-> None]
Confirm(action, name, idx) == [tag |-> "Confirm", action |-> action, name |-> name, idx |-> idx]
SearchResults(results, sel) == [tag |-> "SearchResults", results |-> results, selected |-> sel]
Outdated(packages, cursor, checked, scroll) ==
    [tag |-> "Outdated", packages |-> packages, cursor |-> cursor, checked |-> checked,
     scroll |-> scroll]
Operation(title, oplogs, scroll) ==
    [tag |-> "Operation", title |-> title, logs |-> oplogs, scroll |-> scroll]

ActInstall == [kind |-> "Install"]
ActUninstall == [kind |-> "Uninstall"]
ActUpgrade == [kind |-> "Upgrade"]
ActBulkUpgrade(pkgs) == [kind |-> "BulkUpgrade", pkgs |-> pkgs]
ActInstallBrew == [kind |-> "InstallBrew"]

(* A FormulaInfo: its name, and whether it is the full record `brew info`  *)
(* returns or the name-only record of list_installed                       *)
Formula(name, full) == [name |-> name, full |-> full]

EvStatus(s) == [type |-> "Status", text |-> s]
EvBrewList(list) == [type |-> "BrewList", list |-> list]
EvBrewInfo(info, idx) == [type |-> "BrewInfo", info |-> info, idx |-> idx]
EvBrewInfoAvailable(info, idx) == [type |-> "BrewInfoAvailable", info |-> info, idx |-> idx]
EvLog(l) == [type |-> "Log", text |-> l]
EvOpStart(title) == [type |-> "OpStart", title |-> title]
EvOpLog(l) == [type |-> "OpLog", text |-> l]
EvOpEnd(title) == [type |-> "OpEnd", title |-> title]
EvShowConfirm(action, name, idx) ==
    [type |-> "ShowConfirm", action |-> action, name |-> name, idx |-> idx]
EvSearchResults(results) == [type |-> "SearchResults", results |-> results]
EvOutdatedList(list) == [type |-> "OutdatedList", list |-> list]
EvAvailableList(list) == [type |-> "AvailableList", list |-> list]
(* A crossterm Event::Key, as the history variable `last` records it *)
KeyPress(k) == [type |-> "Key", key |-> k]

(* The fields of the App struct as App::new leaves them.  `pushed`,         *)
(* `fetches` and `entered` are history fields: every line ever given to    *)
(* push_log, in order; the number of detail fetches issued since the focus *)
(* or a cursor last changed or an installed list was last applied; and,    *)
(* while the Input modal is open, the filter text, the filtered indices    *)
(* and the Available cursor as they were when it was opened.               *)
AppNew ==
    [items |-> <<>>, available_items |-> <<>>, outdated_items |-> <<>>,
     selected |-> 0, available_selected |-> 0, last_selected |-> None,
     available_details |-> None, available_filter |-> <<>>, available_filtered |-> <<>>,
     operation_status |-> None, operation_percent |-> None,
     loading_installed |-> TRUE, loading_available |-> TRUE, operating |-> FALSE,
     status |-> <<"Starting...">>, logs |-> <<>>, mode |-> Normal, focus |-> Installed,
     pushed |-> <<>>, fetches |-> 0, entered |-> None]

(* self.push_log(s) *)
Push(a, s) == [a EXCEPT !.logs = push_log(@, s), !.pushed = Append(@, s)]

(* The background threads.  The worker spawned on BrewList, 'R', at start   *)
(* and every five minutes: brew.outdated(), then one event.                 *)
OutdatedWorker == [kind |-> "outdated", pc |-> "run"]

(* One arm of the event match, the same in App::handle_event and in the    *)
(* drain of App::run but for the percentage parsing of OpLog (inRun).      *)
OnBrewListMerges(a, ev) ==
    [a EXCEPT !.items = @ \o ev.list,
              !.status = <<"Loaded ">> \o Dec(Len(ev.list)) \o <<" packages">>,
              !.loading_installed = FALSE,
              !.last_selected = None,
              !.fetches = 0]
OnBrewList(a, ev) ==
    [a EXCEPT !.items = ev.list,
              !.status = <<"Loaded ">> \o Dec(Len(ev.list)) \o <<" packages">>,
              !.loading_installed = FALSE,
              !.last_selected = None,
              !.fetches = 0]
OnBrewInfo(a, ev) ==
    [a EXCEPT !.items = IF ev.idx < Len(a.items) THEN [@ EXCEPT ![ev.idx + 1] = ev.info] ELSE @,
              !.last_selected = Some(<<Installed, ev.idx>>)]
OnBrewInfoAvailable(a, ev) ==
    [a EXCEPT !.available_details = Some(ev.info),
              !.last_selected = Some(<<Available, ev.idx>>)]
OnOpStart(a, ev) ==
    [Push([a EXCEPT !.mode = Operation(ev.title, <<>>, 0)], <<"Started: ">> \o ev.title)
        EXCEPT !.operating = TRUE, !.operation_percent = None]
OnOpLogHighest(a, ev, inRun) ==
    LET a1 == IF a.mode.tag = "Operation" THEN [a EXCEPT !.mode = OpLogPush(@, ev.text)] ELSE a
        a2 == Push(a1, ev.text)
        pct == LinePercent(ev.text, inRun)
    IN IF pct # None /\ (a.operation_percent = None \/ a.operation_percent[1] < pct[1])
       THEN [a2 EXCEPT !.operation_status = Some(Dec(pct[1]) \o <<"%">>),
                       !.operation_percent = pct]
       ELSE a2
OnOpLog(a, ev, inRun) ==
    LET a1 == IF a.mode.tag = "Operation" THEN [a EXCEPT !.mode = OpLogPush(@, ev.text)] ELSE a
        a2 == Push(a1, ev.text)
        pct == LinePercent(ev.text, inRun)
    IN IF pct # None
       THEN [a2 EXCEPT !.operation_status = Some(Dec(pct[1]) \o <<"%">>),
                       !.operation_percent = pct]
       ELSE a2
OnOpEndKeepsPercent(a, ev) ==
    [Push(a, <<"Finished: ">> \o ev.title)
        EXCEPT !.operation_status = None, !.operating = FALSE]
OnOpEnd(a, ev) ==
    [Push(a, <<"Finished: ">> \o ev.title)
        EXCEPT !.operation_status = None, !.operation_percent = None, !.operating = FALSE]
OnAvailableListFiltered(a, ev) ==
    [a EXCEPT !.available_items = ev.list,
              !.status = <<"Loaded ">> \o Dec(Len(ev.list)) \o <<" available packages">>,
              !.loading_available = FALSE,
              !.available_filtered = FilterIndices(ev.list, a.available_filter)]
OnAvailableList(a, ev) ==
    [a EXCEPT !.available_items = ev.list,
              !.status = <<"Loaded ">> \o Dec(Len(ev.list)) \o <<" available packages">>,
              !.loading_available = FALSE,
              !.available_filtered = Identity(Len(ev.list))]

(* The App after one event *)
OnEvent(a, ev, inRun) ==
    CASE ev.type = "BrewList" -> OnBrewList(a, ev)
      [] ev.type = "BrewInfo" -> OnBrewInfo(a, ev)
      [] ev.type = "BrewInfoAvailable" -> OnBrewInfoAvailable(a, ev)
      [] ev.type = "Status" -> [a EXCEPT !.status = ev.text]
      [] ev.type = "OutdatedList" -> [a EXCEPT !.outdated_items = ev.list]
      [] ev.type = "Log" -> Push(a, ev.text)
      [] ev.type = "OpStart" -> OnOpStart(a, ev)
      [] ev.type = "OpLog" -> OnOpLog(a, ev, inRun)
      [] ev.type = "OpEnd" -> OnOpEnd(a, ev)
      [] ev.type = "SearchResults" -> [a EXCEPT !.mode = SearchResults(ev.results, 0)]
      [] ev.type = "AvailableList" -> OnAvailableList(a, ev)
      [] ev.type = "ShowConfirm" -> [a EXCEPT !.mode = Confirm(ev.action, ev.name, ev.idx)]

(* The threads an event's arm spawns *)
EventSpawnsNonEmpty(ev) ==
    IF ev.type = "BrewList" /\ ev.list # <<>> THEN <<OutdatedWorker>> ELSE <<>>
EventSpawns(ev) == IF ev.type = "BrewList" THEN <<OutdatedWorker>> ELSE <<>>

----------------------------------------------------------------------------
(* Keys: a KeyCode::Char(c) is the one-character string c, every other     *)
(* KeyCode is its name.                                                    *)
SpecialKeys == {"Esc", "Enter", "Tab", "Up", "Down", "PageUp", "PageDown", "Home", "End",
                "Backspace", "Delete"}
IsCharNever(k) == FALSE
IsChar(k) == k \notin SpecialKeys

(* str::trim, with ' ' the white space *)
RECURSIVE TrimStart(_)
TrimStart(s) == IF s # <<>> /\ Head(s) = " " THEN TrimStart(Tail(s)) ELSE s
RECURSIVE TrimEnd(_)
TrimEnd(s) == IF s # <<>> /\ s[Len(s)] = " " THEN TrimEnd(SubSeq(s, 1, Len(s) - 1)) ELSE s
Trim(s) == TrimEnd(TrimStart(s))

Min(x, y) == IF x < y THEN x ELSE y
(* usize::saturating_sub *)
SatSub(x, y) == IF x > y THEN x - y ELSE 0
(* Vec::get(i) is Some *)
InRange(v, i) == i < Len(v)
(* The 0-based position of x in v (Iterator::position), as an Option *)
Position(v, x) ==
    IF \E i \in 1..Len(v) : v[i] = x
    THEN Some((CHOOSE i \in 1..Len(v) : v[i] = x /\ \A j \in 1..(i - 1) : v[j] # x) - 1)
    ELSE None

(* The threads a key handler spawns.  `sent` and `acked` are history: the   *)
(* events the runner has sent, and how many of its OpEnd events the main   *)
(* loop has applied.                                                       *)
Runner(action, name) ==
    [kind |-> "runner", action |-> action, name |-> name, pc |-> "start", title |-> <<>>,
     sent |-> <<>>, acked |-> 0]
InfoWorker(f, name, idx) == [kind |-> "info", focus |-> f, name |-> name, idx |-> idx, pc |-> "run"]
SearchWorker(query) == [kind |-> "search", query |-> query, pc |-> "run"]

(* Help modal: any key *)
KeyHelpStays(a, k) == a
KeyHelp(a, k) == [a EXCEPT !.mode = Normal]

(* Operation modal *)
PageSize == 10
KeyOperationUnbounded(a, k) == [a EXCEPT !.mode.scroll = @ + 1]
KeyOperationCancels(a, k) == [a EXCEPT !.mode = Normal, !.operating = FALSE]
KeyOperation(a, k) ==
    LET m == a.mode
        n == Len(m.logs)
    IN CASE k \in {"Esc", "?"} -> [a EXCEPT !.mode = Normal]
         [] k \in {"Up", "k"} ->
                [a EXCEPT !.mode.scroll = IF m.scroll + 1 < n THEN m.scroll + 1 ELSE n]
         [] k \in {"Down", "j"} ->
                [a EXCEPT !.mode.scroll = IF m.scroll > 0 THEN m.scroll - 1 ELSE m.scroll]
         [] k = "PageUp" -> [a EXCEPT !.mode.scroll = Min(m.scroll + PageSize, n)]
         [] k = "PageDown" -> [a EXCEPT !.mode.scroll = SatSub(m.scroll, PageSize)]
         [] k = "Home" -> [a EXCEPT !.mode.scroll = n]
         [] k = "End" -> [a EXCEPT !.mode.scroll = 0]
         [] OTHER -> a

(* Confirm modal: the mode is replaced by Normal before the key is looked at *)
KeyConfirm(a, k) ==
    IF k \in {"n", "Esc"}
    THEN [a EXCEPT !.mode = Normal, !.status = <<"Cancelled">>]
    ELSE [a EXCEPT !.mode = Normal]
SpawnsConfirmAnyKey(a, k) == <<Runner(a.mode.action, a.mode.name)>>
SpawnsConfirm(a, k) ==
    IF k \in {"y", "Enter"} THEN <<Runner(a.mode.action, a.mode.name)>> ELSE <<>>

(* Input modal *)
LiveFilterStale(a, buffer, snap) ==
    LET filtered == FilterIndices(a.available_items, a.available_filter)
    IN [a EXCEPT !.available_filter = buffer,
                 !.available_filtered = filtered,
                 !.available_selected = IF snap /\ filtered # <<>> THEN filtered[1] ELSE @]
LiveFilter(a, buffer, snap) ==
    LET filtered == FilterIndices(a.available_items, buffer)
    IN [a EXCEPT !.available_filter = buffer,
                 !.available_filtered = filtered,
                 !.available_selected = IF snap /\ filtered # <<>> THEN filtered[1] ELSE @]
KeyInput(a, k) ==
    LET action == a.mode.action
        buffer == a.mode.buffer
        popped == IF buffer = <<>> THEN buffer ELSE SubSeq(buffer, 1, Len(buffer) - 1)
        value == Trim(buffer)
    IN CASE k = "Esc" -> [a EXCEPT !.mode = Normal, !.status = <<"Cancelled input">>]
         [] k = "Backspace" ->
                [(IF action = "Search" THEN LiveFilter(a, popped, FALSE) ELSE a)
                    EXCEPT !.mode = Input(action, popped)]
         [] k = "Enter" ->
                IF value = <<>> THEN [a EXCEPT !.mode = Normal]
                ELSE IF action = "Install"
                THEN [a EXCEPT !.mode = Confirm(ActInstall, value, None)]
                ELSE IF a.focus = Available
                THEN [LiveFilter(a, value, TRUE) EXCEPT !.mode = Normal]
                ELSE [a EXCEPT !.mode = Normal]
         [] IsChar(k) ->
                [(IF action = "Search" THEN LiveFilter(a, Append(buffer, k), TRUE) ELSE a)
                    EXCEPT !.mode = Input(action, Append(buffer, k))]
         [] OTHER -> a
SpawnsInputNever(a, k) == <<>>
SpawnsInput(a, k) ==
    IF /\ k = "Enter"
       /\ Trim(a.mode.buffer) # <<>>
       /\ a.mode.action = "Search"
       /\ a.focus # Available
    THEN <<SearchWorker(Trim(a.mode.buffer))>>
    ELSE <<>>

(* Search results modal *)
KeySearchResultsNoClamp(a, k) == [a EXCEPT !.mode.selected = @ + 1]
KeySearchResults(a, k) ==
    LET m == a.mode
    IN CASE k \in {"Up", "k"} ->
                [a EXCEPT !.mode.selected = IF m.selected > 0 THEN m.selected - 1 ELSE m.selected]
         [] k \in {"Down", "j"} ->
                [a EXCEPT !.mode.selected =
                              IF m.selected + 1 < Len(m.results) THEN m.selected + 1 ELSE m.selected]
         [] k = "Enter" ->
                IF InRange(m.results, m.selected)
                THEN [a EXCEPT !.mode = Confirm(ActInstall, m.results[m.selected + 1], None)]
                ELSE [a EXCEPT !.mode = Normal]
         [] k \in {"Esc", "?"} -> [a EXCEPT !.mode = Normal]
         [] OTHER -> a

(* Outdated modal *)
CheckedNamesAll(packages, checked, i) == packages
RECURSIVE CheckedNames(_, _, _)
CheckedNames(packages, checked, i) ==
    IF i >= Len(packages) THEN <<>>
    ELSE (IF i < Len(checked) /\ checked[i + 1] THEN <<packages[i + 1]>> ELSE <<>>)
         \o CheckedNames(packages, checked, i + 1)
KeyOutdatedChecksAll(a, k) ==
    [a EXCEPT !.mode.checked = [i \in 1..Len(a.mode.packages) |-> TRUE]]
KeyOutdated(a, k) ==
    LET m == a.mode
        to_upgrade == CheckedNames(m.packages, m.checked, 0)
    IN CASE k \in {"Esc", "?"} -> [a EXCEPT !.mode = Normal]
         [] k \in {"Up", "k"} ->
                [a EXCEPT !.mode.cursor = IF m.cursor > 0 THEN m.cursor - 1 ELSE m.cursor]
         [] k \in {"Down", "j"} ->
                [a EXCEPT !.mode.cursor =
                              IF m.cursor + 1 < Len(m.packages) THEN m.cursor + 1 ELSE m.cursor]
         [] k = " " ->
                IF m.cursor < Len(m.checked)
                THEN [a EXCEPT !.mode.checked[m.cursor + 1] = ~m.checked[m.cursor + 1]]
                ELSE a
         [] k = "Enter" ->
                IF to_upgrade # <<>>
                THEN [a EXCEPT !.mode =
                          Confirm(ActBulkUpgrade(to_upgrade),
                                  IF Len(to_upgrade) = 1 THEN to_upgrade[1]
                                  ELSE Dec(Len(to_upgrade)) \o <<" packages">>,
                                  None)]
                ELSE a
         [] OTHER -> a

(* Normal mode *)
NavDown(a) ==
    IF a.focus = Installed
    THEN [a EXCEPT !.selected = IF a.selected + 1 < Len(a.items) THEN a.selected + 1 ELSE a.selected]
    ELSE IF a.available_filtered = <<>> THEN a
    ELSE LET f == a.available_filtered
             pos == Position(f, a.available_selected)
         IN [a EXCEPT !.available_selected =
                          IF pos # None THEN f[Min(pos[1] + 1, Len(f) - 1) + 1] ELSE f[1]]
NavUp(a) ==
    IF a.focus = Installed
    THEN [a EXCEPT !.selected = IF a.selected > 0 THEN a.selected - 1 ELSE a.selected]
    ELSE IF a.available_filtered = <<>> THEN a
    ELSE LET f == a.available_filtered
             pos == Position(f, a.available_selected)
         IN [a EXCEPT !.available_selected =
                          IF pos # None THEN f[SatSub(pos[1], 1) + 1] ELSE f[Len(f)]]
NormalEnterInstalledOnly(a) ==
    IF InRange(a.items, a.selected)
    THEN [a EXCEPT !.mode = Confirm(ActUninstall, a.items[a.selected + 1].name,
                                    Some(a.selected)),
                   !.last_selected = Some(<<Installed, a.selected>>)]
    ELSE a
NormalEnter(a) ==
    IF a.focus = Installed
    THEN IF InRange(a.items, a.selected)
         THEN [a EXCEPT !.mode = Confirm(ActUninstall, a.items[a.selected + 1].name,
                                         Some(a.selected)),
                        !.last_selected = Some(<<Installed, a.selected>>)]
         ELSE a
    ELSE IF InRange(a.available_items, a.available_selected)
         THEN [a EXCEPT !.mode = Confirm(ActInstall, a.available_items[a.available_selected + 1],
                                         Some(a.available_selected)),
                        !.last_selected = Some(<<Available, a.available_selected>>)]
         ELSE a
KeyNormal(a, k) ==
    CASE k = "o" ->
            [a EXCEPT !.mode = Outdated(a.outdated_items,
                                        0,
                                        [i \in 1..Len(a.outdated_items) |-> FALSE],
                                        0)]
      [] k = "?" -> [a EXCEPT !.mode = Help]
      [] k = "Tab" -> [a EXCEPT !.focus = IF @ = Installed THEN Available ELSE Installed]
      [] k \in {"Down", "j"} -> NavDown(a)
      [] k \in {"Up", "k"} -> NavUp(a)
      [] k = "r" ->
            IF InRange(a.items, a.selected)
            THEN [a EXCEPT !.mode = Confirm(ActUninstall, a.items[a.selected + 1].name,
                                            Some(a.selected))]
            ELSE a
      [] k = "u" ->
            IF InRange(a.items, a.selected)
            THEN [a EXCEPT !.mode = Confirm(ActUpgrade, a.items[a.selected + 1].name,
                                            Some(a.selected))]
            ELSE a
      [] k = "i" -> [a EXCEPT !.mode = Input("Install", <<>>)]
      [] k = "s" -> [a EXCEPT !.mode = Input("Search", <<>>)]
      [] k = "f" -> [a EXCEPT !.mode = Input("Search", a.available_filter), !.focus = Available]
      [] k = "F" -> [a EXCEPT !.available_filter = <<>>,
                              !.available_filtered = Identity(Len(a.available_items))]
      [] k = "Enter" -> NormalEnter(a)
      [] OTHER -> a
SpawnsNormal(a, k) ==
    CASE k = "R" -> <<OutdatedWorker>>
      [] k = "Enter" ->
            IF a.focus = Installed
            THEN IF InRange(a.items, a.selected)
                    /\ a.last_selected # Some(<<Installed, a.selected>>)
                 THEN <<InfoWorker(Installed, a.items[a.selected + 1].name, a.selected)>>
                 ELSE <<>>
            ELSE IF InRange(a.available_items, a.available_selected)
                    /\ a.last_selected # Some(<<Available, a.available_selected>>)
                 THEN <<InfoWorker(Available, a.available_items[a.available_selected + 1],
                                   a.available_selected)>>
                 ELSE <<>>
      [] OTHER -> <<>>

(* The mode dispatch of one key event *)
OnKey(a, k) ==
    CASE a.mode.tag = "Help" -> KeyHelp(a, k)
      [] a.mode.tag = "Operation" -> KeyOperation(a, k)
      [] a.mode.tag = "Confirm" -> KeyConfirm(a, k)
      [] a.mode.tag = "Input" -> KeyInput(a, k)
      [] a.mode.tag = "SearchResults" -> KeySearchResults(a, k)
      [] a.mode.tag = "Outdated" -> KeyOutdated(a, k)
      [] OTHER -> KeyNormal(a, k)
KeySpawns(a, k) ==
    CASE a.mode.tag = "Confirm" -> SpawnsConfirm(a, k)
      [] a.mode.tag = "Input" -> SpawnsInput(a, k)
      [] a.mode.tag = "Normal" -> SpawnsNormal(a, k)
      [] OTHER -> <<>>
(* `KeyCode::Char('q') => return Ok(())` of the Normal arm *)
KeyQuitsAnywhere(a, k) == k = "q"
KeyQuits(a, k) == a.mode.tag = "Normal" /\ k = "q"

(* The automatic details loading that ends every iteration of the loop *)
AutoDetailsNever(a) == a
AutoDetails(a) ==
    IF a.focus = Installed
    THEN IF a.items # <<>> /\ a.last_selected # Some(<<Installed, a.selected>>)
            /\ InRange(a.items, a.selected)
         THEN [a EXCEPT !.last_selected = Some(<<Installed, a.selected>>)]
         ELSE a
    ELSE IF a.available_items # <<>> /\ a.last_selected # Some(<<Available, a.available_selected>>)
            /\ InRange(a.available_items, a.available_selected)
         THEN [a EXCEPT !.last_selected = Some(<<Available, a.available_selected>>)]
         ELSE a
AutoSpawns(a) ==
    IF AutoDetails(a) = a THEN <<>>
    ELSE IF a.focus = Installed
    THEN <<InfoWorker(Installed, a.items[a.selected + 1].name, a.selected)>>
    ELSE <<InfoWorker(Available, a.available_items[a.available_selected + 1],
                      a.available_selected)>>

(* The status line rebuilt after every drain *)
ModeStr(m) ==
    CASE m.tag = "Input" -> <<"Input(", m.action, ")">>
      [] m.tag = "Confirm" ->
            IF m.action.kind = "InstallBrew" THEN <<"Confirm Install Homebrew">>
            ELSE <<"Confirm ", m.action.kind, " ">> \o m.name
      [] m.tag = "SearchResults" ->
            <<"SearchResults ">> \o Dec(Len(m.results)) \o <<" results (sel ">>
                \o Dec(m.selected) \o <<")">>
      [] m.tag = "Outdated" ->
            <<"Outdated ">> \o Dec(Len(m.packages)) \o <<" packages (cursor ">>
                \o Dec(m.cursor) \o <<")">>
      [] m.tag = "Operation" ->
            <<"Operation: ">> \o m.title \o <<" (">> \o Dec(Len(m.logs)) \o <<" lines)">>
      [] OTHER -> <<m.tag>>
StatusLine(a) ==
    LET selected_name ==
            IF a.focus = Installed
            THEN IF InRange(a.items, a.selected) THEN a.items[a.selected + 1].name ELSE <<>>
            ELSE IF InRange(a.available_items, a.available_selected)
                 THEN a.available_items[a.available_selected + 1] ELSE <<>>
        selected_installed ==
            IF selected_name = <<>> THEN <<>>
            ELSE IF \E i \in 1..Len(a.items) : a.items[i].name = selected_name
                 THEN <<"(installed)">> ELSE <<"(not installed)">>
    IN <<"Installed: ">> \o Dec(Len(a.items)) \o <<"  Available: ">>
         \o Dec(Len(a.available_items)) \o <<"  Focus: ", a.focus, "  Selected: ">>
         \o (IF selected_name = <<>> THEN <<"-">> ELSE selected_name) \o <<" ">>
         \o selected_installed \o <<"  Mode: ">> \o ModeStr(a.mode) \o <<"  Logs: ">>
         \o Dec(Len(a.logs))

----------------------------------------------------------------------------
(* The operation runner thread spawned when a Confirm is accepted           *)
RECURSIVE Join(_)
Join(args) ==
    IF args = <<>> THEN <<>>
    ELSE IF Len(args) = 1 THEN args[1]
    ELSE args[1] \o <<" ">> \o Join(Tail(args))
Verb(action) ==
    CASE action.kind = "Uninstall" -> "uninstall"
      [] action.kind = "Upgrade" -> "upgrade"
      [] action.kind = "Install" -> "install"
      [] action.kind = "BulkUpgrade" -> "upgrade"
      [] OTHER -> ""
Args(action, name) == IF action.kind = "BulkUpgrade" THEN action.pkgs ELSE <<name>>
Title(action, name) ==
    IF action.kind = "InstallBrew" THEN <<"install-homebrew">>
    ELSE <<"brew ", Verb(action), " ">> \o Join(Args(action, name))

(* One reader thread per captured stream: an OpLog per line read *)
Reader(lines) == [kind |-> "reader", lines |-> lines, pc |-> "run"]

(* tx.send(ev) by a runner: the event is kept in its history field `sent`,   *)
(* and joins the channel in RunnerStep                                     *)
Sent(t, ev) == [t EXCEPT !.sent = Append(@, ev)]

(* The runner's steps, each the thread record and the events it sends.     *)
(* start: the title and OpStart.                                           *)
RunnerStart(t) ==
    LET title == Title(t.action, t.name)
    IN [Sent(t, EvOpStart(title)) EXCEPT !.title = title, !.pc = "spawn"]
(* spawn: Command::spawn() returned Err(e) *)
RunnerSpawnErrReturns(t) ==
    [Sent(t, IF t.action.kind = "InstallBrew"
             THEN EvLog(<<"failed to spawn installer: ", "e">>)
             ELSE EvOpLog(<<"failed to spawn brew: ", "e">>))
        EXCEPT !.pc = "done"]
RunnerSpawnErr(t) ==
    [Sent(t, IF t.action.kind = "InstallBrew"
             THEN EvLog(<<"failed to spawn installer: ", "e">>)
             ELSE EvOpLog(<<"failed to spawn brew: ", "e">>))
        EXCEPT !.pc = "end"]
(* spawn: Ok(child); the two readers are spawned by the caller *)
RunnerSpawnOk(t) == [t EXCEPT !.pc = "wait"]
(* wait: child.wait() returned; outcome is "success", "failure" (a nonzero *)
(* exit status) or "error" (wait itself failed)                            *)
RunnerWaitReloads(t, outcome) ==
    [Sent(t, EvLog(t.title \o <<" failed: ", "exit status: 1">>)) EXCEPT !.pc = "reload"]
RunnerWait(t, outcome) ==
    CASE outcome = "success" ->
            [Sent(t, EvStatus(t.title \o <<" completed">>))
                EXCEPT !.pc = IF t.action.kind = "InstallBrew" THEN "end" ELSE "reload"]
      [] outcome = "failure" ->
            [Sent(t, EvLog(t.title \o <<" failed: ", "exit status: 1">>)) EXCEPT !.pc = "end"]
      [] OTHER ->
            [Sent(t, IF t.action.kind = "InstallBrew"
                     THEN EvLog(<<"failed waiting for installer: ", "e">>)
                     ELSE EvOpLog(<<"failed waiting for brew: ", "e">>))
                EXCEPT !.pc = "end"]
(* reload: Brew::new().list_installed() after a successful brew verb; res  *)
(* is Some(list) or None (Err)                                             *)
RunnerReload(t, res) ==
    [(IF res # None THEN Sent(t, EvBrewList(res[1])) ELSE t) EXCEPT !.pc = "end"]
(* end: OpEnd, on every path *)
RunnerEndSilent(t) == [t EXCEPT !.pc = "done"]
RunnerEnd(t) == [Sent(t, EvOpEnd(t.title)) EXCEPT !.pc = "done"]

(* The events a step of thread t added to its `sent` *)
NewlySent(t, t2) == SubSeq(t2.sent, Len(t.sent) + 1, Len(t2.sent))

----------------------------------------------------------------------------
(* The environment's answers, from small sets                              *)
git == <<"g", "i", "t">>
vim == <<"v", "i", "m">>
Pct50 == <<"5", "0", "%">>

(* What list_installed returns after an operation: nothing, or the one    *)
(* package left, vim once git is uninstalled and git otherwise             *)
ReloadLists(action) ==
    IF action.kind = "Uninstall" THEN {<<>>, <<Formula(vim, FALSE)>>}
    ELSE {<<>>, <<Formula(git, FALSE)>>}
(* What the captured stdout and stderr of the subprocess yield, line by line *)
StdoutScripts == {<<>>, <<Pct50>>}
StderrScripts == {<<>>}
(* What brew.outdated() returns *)
OutdatedLists == {<<git>>}

(* Bounds of the model *)
MaxKeys == 2

(* A message in the channel: the event and, as history, its sender *)
Msg(ev, i) == [ev |-> ev, from |-> i]
RECURSIVE Msgs(_, _)
Msgs(evs, i) == IF evs = <<>> THEN <<>> ELSE <<Msg(Head(evs), i)>> \o Msgs(Tail(evs), i)

(* The threads once message m is received *)
Acked(ths, m) ==
    IF m.ev.type = "OpEnd" /\ m.from \in 1..Len(ths)
    THEN [ths EXCEPT ![m.from].acked = @ + 1]
    ELSE ths

(* App::run, one `while let Ok(ev) = self.rx.try_recv()` iteration *)
Recv ==
    /\ pc = "run"
    /\ chan # <<>>
    /\ app' = OnEvent(app, Head(chan).ev, TRUE)
    /\ chan' = Tail(chan)
    /\ threads' = Acked(threads, Head(chan)) \o EventSpawns(Head(chan).ev)
    /\ last' = Some(Head(chan).ev)
    /\ UNCHANGED <<pc, keys>>

(* App::run, the rest of an iteration once try_recv finds the channel      *)
(* empty: the status line, the poll for a key (key is Some(k), or None     *)
(* when the poll times out), the mode's key handling, and the automatic    *)
(* details loading                                                         *)
AfterKey(a, key) == IF key = None THEN a ELSE OnKey(a, key[1])
TickSpawns(a, key) ==
    (IF key = None THEN <<>> ELSE KeySpawns(a, key[1])) \o AutoSpawns(AfterKey(a, key))
TickApp(a, key) ==
    LET b == AutoDetails(AfterKey([a EXCEPT !.status = StatusLine(a)], key))
        stays == /\ b.focus = a.focus
                 /\ b.selected = a.selected
                 /\ b.available_selected = a.available_selected
        issued == Len(SelectSeq(TickSpawns(a, key), LAMBDA t : t.kind = "info"))
        view == <<a.available_filter, a.available_filtered, a.available_selected>>
    IN [b EXCEPT !.fetches = (IF stays THEN @ ELSE 0) + issued,
                 !.entered = IF b.mode.tag # "Input" THEN None
                             ELSE IF a.mode.tag = "Input" THEN @
                             ELSE Some(view)]
Tick(key) ==
    /\ pc = "run"
    /\ chan = <<>>
    /\ IF key # None /\ KeyQuits(app, key[1])
       THEN /\ app' = [app EXCEPT !.status = StatusLine(app)]
            /\ threads' = threads
            /\ pc' = "quit"
       ELSE /\ app' = TickApp(app, key)
            /\ threads' = threads \o TickSpawns(app, key)
            /\ pc' = pc
    /\ chan' = chan
    /\ keys' = (IF key = None THEN keys ELSE keys + 1)
    /\ last' = (IF key = None THEN None ELSE Some(KeyPress(key[1])))

(* A step of background thread i *)
RunnerStep(i) ==
    /\ threads[i].kind = "runner"
    /\ \/ /\ threads[i].pc = "start"
          /\ threads' = [threads EXCEPT ![i] = RunnerStart(@)]
       \/ /\ threads[i].pc = "spawn"
          /\ threads' = [threads EXCEPT ![i] = RunnerSpawnErr(@)]
       \/ /\ threads[i].pc = "spawn"
          /\ \E out \in StdoutScripts, err \in StderrScripts :
                threads' = [threads EXCEPT ![i] = RunnerSpawnOk(@)]
                              \o <<Reader(out), Reader(err)>>
       \/ /\ threads[i].pc = "wait"
          /\ \E outcome \in {"success", "failure", "error"} :
                threads' = [threads EXCEPT ![i] = RunnerWait(@, outcome)]
       \/ /\ threads[i].pc = "reload"
          /\ \E res \in {None} \cup {Some(l) : l \in ReloadLists(threads[i].action)} :
                threads' = [threads EXCEPT ![i] = RunnerReload(@, res)]
       \/ /\ threads[i].pc = "end"
          /\ threads' = [threads EXCEPT ![i] = RunnerEnd(@)]
    /\ chan' = chan \o Msgs(NewlySent(threads[i], threads'[i]), i)
    /\ last' = None
    /\ UNCHANGED <<app, pc, keys>>

ReaderStep(i) ==
    /\ threads[i].kind = "reader"
    /\ threads[i].lines # <<>>
    /\ chan' = Append(chan, Msg(EvOpLog(Head(threads[i].lines)), i))
    /\ threads' = [threads EXCEPT ![i].lines = Tail(@)]
    /\ last' = None
    /\ UNCHANGED <<app, pc, keys>>

OutdatedStep(i) ==
    /\ threads[i].kind = "outdated"
    /\ threads[i].pc = "run"
    /\ \E ev \in {EvLog(<<"outdated check failed: ", "e">>)}
                    \cup {EvOutdatedList(l) : l \in OutdatedLists} :
          chan' = Append(chan, Msg(ev, i))
    /\ threads' = [threads EXCEPT ![i].pc = "done"]
    /\ last' = None
    /\ UNCHANGED <<app, pc, keys>>

(* The brew presence probe of App::new, when `brew --version` cannot run *)
Probe == [kind |-> "probe", pc |-> "run"]
ProbeEvent == EvShowConfirm(ActInstallBrew, <<"Homebrew">>, None)
ProbeStep(i) ==
    /\ threads[i].kind = "probe"
    /\ threads[i].pc = "run"
    /\ chan' = Append(chan, Msg(ProbeEvent, i))
    /\ threads' = [threads EXCEPT ![i].pc = "done"]
    /\ last' = None
    /\ UNCHANGED <<app, pc, keys>>

(* A detail fetch: brew.info(name), then BrewInfo / BrewInfoAvailable with  *)
(* the index the fetch was issued for, or a Log line                       *)
InfoStep(i) ==
    /\ threads[i].kind = "info"
    /\ threads[i].pc = "run"
    /\ \E ev \in {EvLog(<<"Info failed: ", "e">>),
                  IF threads[i].focus = Installed
                  THEN EvBrewInfo(Formula(threads[i].name, TRUE), threads[i].idx)
                  ELSE EvBrewInfoAvailable(Formula(threads[i].name, TRUE), threads[i].idx)} :
          chan' = Append(chan, Msg(ev, i))
    /\ threads' = [threads EXCEPT ![i].pc = "done"]
    /\ last' = None
    /\ UNCHANGED <<app, pc, keys>>

ThreadStep(i) ==
    \/ RunnerStep(i)
    \/ ReaderStep(i)
    \/ OutdatedStep(i)
    \/ InfoStep(i)
    \/ ProbeStep(i)

----------------------------------------------------------------------------
(* Spec: App::run with its background threads, from the states the program *)
(* is in when a Confirm is about to be answered.  Either brew is there:    *)
(* the startup loaders have been served, the detail of the first row is    *)
(* fetched, and the user has opened a Confirm ('r', 'u', Tab and Enter, or *)
(* 'o', Space, 'j', Space, Enter); or brew is missing: the lists are       *)
(* empty, the outdated check has logged its failure, and the probe is      *)
(* about to post the ShowConfirm for the bootstrap.                        *)
AppLoaded ==
    [AppNew EXCEPT !.items = <<Formula(git, TRUE), Formula(vim, FALSE)>>,
                   !.available_items = <<git, vim>>,
                   !.available_filtered = <<0, 1>>,
                   !.outdated_items = <<git, vim>>,
                   !.last_selected = Some(<<Installed, 0>>),
                   !.fetches = 1,
                   !.loading_installed = FALSE,
                   !.loading_available = FALSE]
AppNoBrew ==
    [Push(AppNew, <<"outdated check failed: ", "e">>)
        EXCEPT !.loading_installed = TRUE, !.loading_available = TRUE]
(* The App as the last draw_ui saw it: the status line is rebuilt *)
Drawn(a) == [a EXCEPT !.status = StatusLine(a)]
OpenConfirms ==
    {Confirm(ActUninstall, git, Some(0)),
     Confirm(ActUpgrade, git, Some(0)),
     Confirm(ActInstall, git, None),
     Confirm(ActBulkUpgrade(<<git, vim>>), <<"2", " packages">>, None)}

Init ==
    /\ \/ /\ \E m \in OpenConfirms : app = Drawn([AppLoaded EXCEPT !.mode = m])
          /\ threads = <<>>
       \/ /\ app = Drawn(AppNoBrew)
          /\ threads = <<Probe>>
    /\ chan = <<>>
    /\ pc = "run"
    /\ keys = 0
    /\ last = None

(* The keys of the scenario: the user answers an open Confirm ("x" is any   *)
(* key the modal does not list); otherwise closes the modal, moves down    *)
(* or quits                                                                *)
ConfirmKeys == {"y", "Enter", "n", "Esc", "x"}
OtherKeys == {"Esc", "q", "j"}
OpsKeys ==
    IF app.mode.tag = "Confirm" THEN ConfirmKeys
    ELSE IF app.mode.tag = "Operation" THEN OtherKeys \cup {"?"}
    ELSE OtherKeys
KeyTick ==
    \E k \in OpsKeys :
        /\ keys < MaxKeys
        /\ Tick(Some(k))
IdleTick == Tick(None)
Threads == \E i \in 1..Len(threads) : ThreadStep(i)

Next == Recv \/ KeyTick \/ IdleTick \/ Threads
Spec == Init /\ [][Next]_vars

(* FairSpec: Spec with the scheduling the program has while App::run is     *)
(* looping.  The loop never blocks (try_recv does not wait and the poll    *)
(* for a key times out), so a queued event is eventually received; the     *)
(* spawned threads are scheduled, a subprocess that was spawned exits and  *)
(* its streams reach end of file.  Every thread ends after finitely many   *)
(* steps, so fairness to the threads together is fairness to each.  Once   *)
(* run has returned the process exits, and nothing is promised of the      *)
(* threads still running.                                                  *)
Running == pc = "run"
(* ENABLED <<Recv>>_vars, written out: a receive always shortens chan *)
RecvEnabled == Running /\ chan # <<>>
(* WF_vars(Recv) *)
FairRecv == []<>(~RecvEnabled) \/ []<><<Recv>>_vars
FairSpec ==
    /\ Spec
    /\ FairRecv
    /\ WF_vars(Running /\ Threads)

----------------------------------------------------------------------------
(* SpecHandle: a test in the manner of tests/smoke_install_brew.rs, calling  *)
(* App::handle_event on a fresh App with the events of an operation.  The  *)
(* threads App::new spawns are left out: handle_event never reads the      *)
(* channel they send on.                                                   *)
Handle(ev) ==
    /\ pc = "test"
    /\ app' = OnEvent(app, ev, FALSE)
    /\ threads' = threads \o EventSpawns(ev)
    /\ last' = Some(ev)
    /\ UNCHANGED <<chan, pc, keys>>

InitTest ==
    /\ app = AppNew
    /\ chan = <<>>
    /\ threads = <<>>
    /\ pc = "test"
    /\ keys = 0
    /\ last = None

TitleBrew == Title(ActInstallBrew, <<"Homebrew">>)
Downloading10 == <<"Downloading... ", "1", "0", "%">>
Downloading50 == <<"Downloading... ", "5", "0", "%">>
Installing100 == <<"Installing... ", "1", "0", "0", "%">>
Pouring == <<"==> Pouring">>
HandleEvents ==
    {EvOpStart(TitleBrew), EvOpEnd(TitleBrew), EvLog(<<"outdated check failed: ", "e">>)}
        \cup {EvOpLog(l) : l \in {Downloading10, Downloading50, Installing100, Pouring}}
MaxCalls == 5
HandleNext ==
    \E ev \in HandleEvents :
        /\ Len(app.pushed) < MaxCalls
        /\ Handle(ev)
SpecHandle == InitTest /\ [][HandleNext]_vars

----------------------------------------------------------------------------
(* SpecPercent: App::run while an operation streams one line.  The runner  *)
(* of `brew install git` waits for its child; the reader of the child's    *)
(* stdout has one line to send, any string of up to MaxLineLen characters  *)
(* of PctChars.                                                            *)
PctChars == {"7", "0", "%", "a"}
MaxLineLen == 6
Lines(n) == UNION {[1..m -> PctChars] : m \in 0..n}
RunnerWaiting(action, name) == [RunnerStart(Runner(action, name)) EXCEPT !.pc = "wait"]
AppOperating(action, name) ==
    Drawn(OnOpStart([AppLoaded EXCEPT !.status = StatusLine(AppLoaded)],
                    EvOpStart(Title(action, name))))

InitPercent ==
    /\ app = AppOperating(ActInstall, git)
    /\ \E l \in Lines(MaxLineLen) :
          threads = <<RunnerWaiting(ActInstall, git), Reader(<<l>>), Reader(<<>>)>>
    /\ chan = <<>>
    /\ pc = "run"
    /\ keys = 0
    /\ last = None

Readers == \E i \in 1..Len(threads) : ReaderStep(i)
PercentNext == Readers \/ Recv
SpecPercent == InitPercent /\ [][PercentNext]_vars

----------------------------------------------------------------------------
(* FairClose: the loop and the scheduling of FairSpec, from the state an   *)
(* operation is in once its OpStart is applied: the Operation modal is     *)
(* open, the runner of `brew install git` waits for its child, and the     *)
(* reader of the child's stdout has one line to send.                      *)
InitClose ==
    /\ app = AppOperating(ActInstall, git)
    /\ threads = <<RunnerWaiting(ActInstall, git), Reader(<<Pct50>>), Reader(<<>>)>>
    /\ chan = <<>>
    /\ pc = "run"
    /\ keys = 0
    /\ last = None
FairClose ==
    /\ InitClose /\ [][Next]_vars
    /\ FairRecv
    /\ WF_vars(Running /\ Threads)

----------------------------------------------------------------------------
(* SpecLogTail: App::handle_event called with one line after another, the   *)
(* k-th line being the decimal numeral of k: a Log outside an operation,   *)
(* an OpLog within one.  An OpStart or an OpEnd may take the place of any  *)
(* of the first MaxMarkers lines.                                          *)
MaxPushes == 405
MaxMarkers == 2
NextLine(a) == Dec(Len(a.pushed) + 1)
LogTailEvents ==
    {IF app.operating THEN EvOpLog(NextLine(app)) ELSE EvLog(NextLine(app))}
        \cup (IF Len(app.pushed) < MaxMarkers
              THEN {EvOpStart(TitleBrew), EvOpEnd(TitleBrew)}
              ELSE {})
LogTailNext ==
    \E ev \in LogTailEvents :
        /\ Len(app.pushed) < MaxPushes
        /\ Handle(ev)
SpecLogTail == InitTest /\ [][LogTailNext]_vars

----------------------------------------------------------------------------
(* SpecOpLog: App::run while an operation streams many lines and the user   *)
(* scrolls the Operation modal.  A step is one whole iteration of the      *)
(* loop: the drain receives the n lines the readers have sent since the    *)
(* last iteration (none, one, or a burst of Burst), the k-th line of the   *)
(* operation being the decimal numeral of k + 1; then the status line,     *)
(* the poll for a key and the automatic details loading.                   *)
Burst == 500
MaxSingles == 2
MaxOpLines == 2600
MaxScrollKeys == 2
ScrollKeys == {"Up", "j", "PageUp", "PageDown", "Home", "End"}
RECURSIVE DrainLines(_, _)
DrainLines(a, n) ==
    IF n = 0 THEN a
    ELSE IF n = 1 THEN OnEvent(a, EvOpLog(NextLine(a)), TRUE)
    ELSE CHOOSE r \in {DrainLines(half, n - (n \div 2)) : half \in {DrainLines(a, n \div 2)}} :
            TRUE

InitOpLog ==
    /\ app = AppOperating(ActInstall, git)
    /\ threads = <<RunnerWaiting(ActInstall, git), Reader(<<>>), Reader(<<>>)>>
    /\ chan = <<>>
    /\ pc = "run"
    /\ keys = 0
    /\ last = None

Iteration(n, key) ==
    /\ pc = "run"
    /\ chan = <<>>
    /\ app' = TickApp(DrainLines(app, n), key)
    /\ threads' = threads \o TickSpawns(DrainLines(app, n), key)
    /\ keys' = (IF key = None THEN keys ELSE keys + 1)
    /\ last' = (IF key # None THEN Some(KeyPress(key[1]))
                ELSE IF n = 0 THEN None
                ELSE Some(EvOpLog(Dec(Len(app.pushed) + n))))
    /\ UNCHANGED <<chan, pc>>
LinesIteration ==
    \E n \in {1, Burst} :
        /\ n = 1 => Len(app.pushed) % Burst <= MaxSingles
        /\ Len(app.pushed) + n <= MaxOpLines
        /\ Iteration(n, None)
ScrollIteration ==
    \E k \in ScrollKeys :
        /\ keys < MaxScrollKeys
        /\ Iteration(0, Some(k))
OpLogNext == LinesIteration \/ ScrollIteration
SpecOpLog == InitOpLog /\ [][OpLogNext]_vars

----------------------------------------------------------------------------
(* SpecFilter: App::run from the start of the program, with the loader of   *)
(* the available packages still running and the user at the filter: 'f' or *)
(* 's' opens the Input modal, characters and Backspace filter live, Enter  *)
(* commits, Esc leaves, 'F' clears, Tab changes the focus, 'j' moves the   *)
(* selection.  The other startup threads have not sent anything yet.       *)
gitk == <<"g", "i", "t", "k">>
AvailableLists == {<<>>, <<git, gitk, vim>>}
AvailableLoader == [kind |-> "loader", pc |-> "start"]
LoaderStep(i) ==
    /\ threads[i].kind = "loader"
    /\ \/ /\ threads[i].pc = "start"
          /\ chan' = Append(chan, Msg(EvStatus(<<"loading available">>), i))
          /\ threads' = [threads EXCEPT ![i].pc = "load"]
       \/ /\ threads[i].pc = "load"
          /\ \E res \in {None} \cup {Some(l) : l \in AvailableLists} :
                chan' = IF res = None THEN chan
                        ELSE Append(chan, Msg(EvAvailableList(res[1]), i))
          /\ threads' = [threads EXCEPT ![i].pc = "done"]
    /\ last' = None
    /\ UNCHANGED <<app, pc, keys>>

InitFilter ==
    /\ app = AppNew
    /\ threads = <<AvailableLoader>>
    /\ chan = <<>>
    /\ pc = "run"
    /\ keys = 0
    /\ last = None

MaxFilterKeys == 4
FilterKeys == {"f", "s", "F", "Tab", "Enter", "Esc", "Backspace", "g", "v", "j"}
FilterKeyTick ==
    \E k \in FilterKeys :
        /\ keys < MaxFilterKeys
        /\ Tick(Some(k))
Loaders == \E i \in 1..Len(threads) : LoaderStep(i)
Infos == \E i \in 1..Len(threads) : InfoStep(i)
FilterNext == Recv \/ FilterKeyTick \/ IdleTick \/ Loaders \/ Infos
SpecFilter == InitFilter /\ [][FilterNext]_vars

----------------------------------------------------------------------------
(* SpecEvents: a test calling App::handle_event on a fresh App with reload  *)
(* events (installed, outdated, available lists from small sets) and with  *)
(* the events that replace the mode, in any order.  MaxEvents bounds the   *)
(* calls that spawn a thread or push a log line.                           *)
wget == <<"w", "g", "e", "t">>
InstalledLists == {<<>>, <<Formula(wget, FALSE)>>, <<Formula(git, FALSE), Formula(vim, FALSE)>>}
NameLists == {<<>>, <<wget>>, <<git, vim>>}
TestEvents ==
    {EvBrewList(l) : l \in InstalledLists}
        \cup {EvOutdatedList(l) : l \in NameLists}
        \cup {EvAvailableList(l) : l \in NameLists}
        \cup {ProbeEvent, EvShowConfirm(ActUninstall, git, Some(0)),
              EvOpStart(TitleBrew), EvSearchResults(<<wget>>)}
MaxEvents == 3
EventsNext ==
    \E ev \in TestEvents :
        /\ Len(threads) + Len(app.pushed) < MaxEvents
        /\ Handle(ev)
SpecEvents == InitTest /\ [][EventsNext]_vars

----------------------------------------------------------------------------
(* SpecModal: App::run with the user at the modals.  The lists are loaded  *)
(* (both installed packages are outdated, or none is)                      *)
(* and the mode is Normal, with a search (`s`, "g", Enter with focus       *)
(* Installed) or an outdated check still running, or with none; or an      *)
(* operation has just failed and its Operation modal is still open.  The   *)
(* user opens the modals and types in them, and never accepts a Confirm;   *)
(* no `brew info` of a detail fetch returns within the scenario.           *)
SearchStep(i) ==
    /\ threads[i].kind = "search"
    /\ threads[i].pc = "run"
    /\ \E ev \in {EvLog(<<"Search failed: ", "e">>)}
                    \cup {EvSearchResults(r) : r \in {<<>>, <<git, gitk>>}} :
          chan' = Append(chan, Msg(ev, i))
    /\ threads' = [threads EXCEPT ![i].pc = "done"]
    /\ last' = None
    /\ UNCHANGED <<app, pc, keys>>
Workers == \E i \in 1..Len(threads) : SearchStep(i) \/ OutdatedStep(i)

InitModal ==
    /\ \/ /\ \E out \in {<<>>, <<git, vim>>} :
                app = Drawn([AppLoaded EXCEPT !.outdated_items = out])
          /\ threads \in {<<>>, <<SearchWorker(<<"g">>)>>, <<OutdatedWorker>>}
       \/ /\ LET title == Title(ActInstall, git)
                 failed == EvLog(title \o <<" failed: ", "exit status: 1">>)
             IN app = Drawn(OnOpEnd(OnEvent(AppOperating(ActInstall, git), failed, TRUE),
                                    EvOpEnd(title)))
          /\ threads = <<>>
    /\ chan = <<>>
    /\ pc = "run"
    /\ keys = 0
    /\ last = None

MaxModalKeys == 4
ModalKeyTick ==
    \E k \in CASE app.mode.tag = "Normal" -> {"q", "?", "i", "s", "f", "o", "Tab", "Enter", "j"}
               [] app.mode.tag = "Help" -> {"q", "x"}
               [] app.mode.tag = "Input" -> {"v", "q", " ", "Backspace", "Enter", "Esc"}
               [] app.mode.tag = "Confirm" -> {"n", "q"}
               [] app.mode.tag = "SearchResults" -> {"j", "k", "Enter", "Esc", "?", "q"}
               [] app.mode.tag = "Outdated" -> {"j", "k", " ", "Enter", "Esc", "q"}
               [] app.mode.tag = "Operation" -> {"Esc", "q"} :
        /\ keys < MaxModalKeys
        /\ Tick(Some(k))
ModalNext == Recv \/ ModalKeyTick \/ IdleTick \/ Workers
SpecModal == InitModal /\ [][ModalNext]_vars

----------------------------------------------------------------------------
(* SpecBrowse: App::run with the user browsing the two columns while the   *)
(* list of installed packages is about to be reloaded.  The `brew info`    *)
(* of the first automatic detail fetch (git, row 0) has not returned yet;  *)
(* meanwhile `brew uninstall git` was accepted and has succeeded, its      *)
(* Operation modal was closed with Esc, and its runner is about to call    *)
(* list_installed.  Three packages are available, all shown or filtered by *)
(* "g".  The user moves the cursor, changes the column, opens a Confirm    *)
(* with Enter, 'r' or 'u' and cancels it with 'n'.  The threads started    *)
(* within the scenario do not return within it.                            *)
BrowseThreads ==
    <<InfoWorker(Installed, git, 0), RunnerWait(RunnerWaiting(ActUninstall, git), "success"),
      Reader(<<>>), Reader(<<>>)>>
InitBrowse ==
    /\ \E f \in {<<>>, <<"g">>} :
          app = Drawn([AppOperating(ActUninstall, git)
                          EXCEPT !.mode = Normal,
                                 !.items = <<Formula(git, FALSE), Formula(vim, FALSE)>>,
                                 !.available_items = <<git, vim, wget>>,
                                 !.available_filter = f,
                                 !.available_filtered = FilterIndices(<<git, vim, wget>>, f)])
    /\ threads = BrowseThreads
    /\ chan = <<>>
    /\ pc = "run"
    /\ keys = 0
    /\ last = None

MaxBrowseKeys == 3
BrowseKeyTick ==
    \E k \in IF app.mode.tag = "Normal"
             THEN {"j", "Down", "k", "Up", "Tab", "Enter", "r", "u"}
             ELSE {"n"} :
        /\ keys < MaxBrowseKeys
        /\ Tick(Some(k))
BrowseWorkers == \E i \in 1..Len(BrowseThreads) : InfoStep(i) \/ RunnerStep(i)
BrowseNext == Recv \/ BrowseKeyTick \/ IdleTick \/ BrowseWorkers
SpecBrowse == InitBrowse /\ [][BrowseNext]_vars

----------------------------------------------------------------------------
(* SpecTwoOps: the loop and the threads of Spec, from the state in which a *)
(* second operation is about to be accepted while the first has not ended: *)
(* the child of `brew install git` has failed and the failure is logged,   *)
(* its runner is about to send OpEnd; the user has closed the Operation    *)
(* modal with Esc and has opened Confirm(Upgrade, git) with 'u'.           *)
InitTwoOps ==
    /\ LET failed == EvLog(Title(ActInstall, git) \o <<" failed: ", "exit status: 1">>)
       IN app = Drawn([OnEvent(AppOperating(ActInstall, git), failed, TRUE)
                          EXCEPT !.mode = Confirm(ActUpgrade, git, Some(0))])
    /\ threads = <<RunnerWait(RunnerWaiting(ActInstall, git), "failure"),
                   Reader(<<>>), Reader(<<>>)>>
    /\ chan = <<>>
    /\ pc = "run"
    /\ keys = 0
    /\ last = None
SpecTwoOps == InitTwoOps /\ [][Next]_vars

----------------------------------------------------------------------------
(* The runner threads *)
RunnerIds == {i \in 1..Len(threads) : threads[i].kind = "runner"}
SentOf(t, type) == {j \in 1..Len(t.sent) : t.sent[j].type = type}

(* C1: every operation runner posts exactly one OpStart, first, and exactly *)
(* one OpEnd with the same title, last, on every path to its end: nothing  *)
(* before it starts, one OpStart and no OpEnd while it runs, and the OpEnd *)
(* as its last event once it is done.                                      *)
C1_RunnerBrackets ==
    \A i \in RunnerIds :
        LET t == threads[i]
        IN /\ t.pc = "start" => t.sent = <<>>
           /\ t.pc # "start" =>
                 /\ SentOf(t, "OpStart") = {1}
                 /\ t.sent[1].title = Title(t.action, t.name)
           /\ t.pc # "done" => SentOf(t, "OpEnd") = {}
           /\ t.pc = "done" =>
                 /\ SentOf(t, "OpEnd") = {Len(t.sent)}
                 /\ t.sent[Len(t.sent)].title = t.sent[1].title
(* C1 witness: a brew verb runner that ended after its spawn failed *)
C1_Witness ==
    \E i \in RunnerIds :
        /\ threads[i].pc = "done"
        /\ threads[i].action.kind = "BulkUpgrade"
        /\ \E j \in 1..Len(threads[i].sent) :
              threads[i].sent[j] = EvOpLog(<<"failed to spawn brew: ", "e">>)

Accepted == RunnerIds # {}
AllEndsApplied == \A i \in RunnerIds : threads[i].acked = 1
(* C2 as stated: once a Confirm is accepted, the runner's OpEnd is          *)
(* eventually applied by the main loop.                                    *)
C2_AcceptedLeadsToEndApplied == Accepted ~> AllEndsApplied
(* C2 amended: once a Confirm is accepted, the runner's OpEnd is eventually *)
(* applied by the main loop, unless the loop is left with 'q' before.      *)
C2_AcceptedLeadsToEndAppliedOrQuit == Accepted ~> (AllEndsApplied \/ pc = "quit")
(* C2 witness: the bootstrap runner's OpEnd applied after its spawn failed *)
C2_Witness ==
    \E i \in RunnerIds :
        /\ threads[i].acked = 1
        /\ threads[i].action.kind = "InstallBrew"
        /\ \E j \in 1..Len(threads[i].sent) :
              threads[i].sent[j] = EvLog(<<"failed to spawn installer: ", "e">>)

----------------------------------------------------------------------------
(* The event the last step applied is of this type *)
Applied(type) == last # None /\ last[1].type = type
(* v is the last Len(v) elements of w, in order *)
IsSuffix(v, w) == Len(v) <= Len(w) /\ v = SubSeq(w, Len(w) - Len(v) + 1, Len(w))
(* The lines pushed since the last "Started: " or "Finished: " line *)
IsMarker(line) == line # <<>> /\ Head(line) \in {"Started: ", "Finished: "}
Markers(p) == {j \in 1..Len(p) : IsMarker(p[j])}
LastMarker(p) ==
    IF Markers(p) = {} THEN 0 ELSE CHOOSE j \in Markers(p) : \A k \in Markers(p) : k <= j
SinceMarker(p) == SubSeq(p, LastMarker(p) + 1, Len(p))

(* C3: the App is not operating before any OpStart; applying OpStart(title) *)
(* leaves it operating, in mode Operation with that title, an empty log    *)
(* and scroll 0; applying OpEnd leaves it not operating, with              *)
(* operation_percent None.                                                 *)
C3_StartThenEnd ==
    /\ (\A j \in 1..Len(app.pushed) : Head(app.pushed[j]) # "Started: ") => ~app.operating
    /\ Applied("OpStart") =>
          /\ app.operating
          /\ app.mode = Operation(last[1].title, <<>>, 0)
    /\ Applied("OpEnd") =>
          /\ ~app.operating
          /\ app.operation_percent = None
(* C3 witness: OpEnd applied right after OpStart, same title *)
C3_Witness ==
    /\ Applied("OpEnd")
    /\ Len(app.pushed) >= 2
    /\ app.pushed[Len(app.pushed) - 1] = <<"Started: ">> \o last[1].title
    /\ ~app.operating

(* C4: during an operation operation_percent is the percentage of the last  *)
(* line applied since the operation started from which one can be          *)
(* extracted, whether higher or lower than the one before; lines without   *)
(* one leave it unchanged, and it is None while there has been none.       *)
RECURSIVE LastPercent(_)
LastPercent(lines) ==
    IF lines = <<>> THEN None
    ELSE IF parse_percent(lines[Len(lines)]) # None THEN parse_percent(lines[Len(lines)])
    ELSE LastPercent(SubSeq(lines, 1, Len(lines) - 1))
C4_LastWins ==
    app.operating => app.operation_percent = LastPercent(SinceMarker(app.pushed))
(* C4 witness: 50% then 10% then a line without a percentage: 10 stands *)
C4_Witness ==
    /\ app.operating
    /\ last = Some(EvOpLog(Pouring))
    /\ app.operation_percent = Some(10)
    /\ \E j \in 1..Len(SinceMarker(app.pushed)) : SinceMarker(app.pushed)[j] = Downloading50

(* C5 as stated: the percentage of an applied OpLog line is that of the     *)
(* maximal run of digits right before the '%', of any length, clamped to   *)
(* 100; None (operation_percent left as it was) without a '%' or a digit   *)
(* before it.                                                              *)
ClaimedPercent(s) ==
    IF Find(s, "%") = None THEN None
    ELSE LET run == DigitsBefore(s, Find(s, "%")[1] - 1)
         IN IF run = <<>> THEN None ELSE Some(Min(DigitsValue(run), PctCap))
C5_PercentOfDigitRun ==
    Applied("OpLog") => app.operation_percent = ClaimedPercent(last[1].text)

(* C6: App.logs never holds more than LogCap lines; it is the newest lines  *)
(* ever pushed, in order and without a gap, the newest included; and what  *)
(* has been evicted went in batches of LogDrain, a batch only when a push  *)
(* made the length exceed LogCap.                                          *)
C6_LogTail ==
    /\ Len(app.logs) <= LogCap
    /\ IsSuffix(app.logs, app.pushed)
    /\ app.pushed # <<>> => app.logs # <<>>
    /\ (Len(app.pushed) - Len(app.logs)) % LogDrain = 0
    /\ Len(app.pushed) > LogCap - LogDrain => Len(app.logs) > LogCap - LogDrain
(* C6 witness: the push of line 301 evicted lines 1 to 100 *)
C6_Witness ==
    /\ Len(app.pushed) = LogCap + 1
    /\ Len(app.logs) = LogCap + 1 - LogDrain
    /\ app.logs[1] = app.pushed[LogDrain + 1]
    /\ app.logs[Len(app.logs)] = app.pushed[LogCap + 1]

(* C7: the Operation modal's log never holds more than OpLogCap lines; it   *)
(* is the newest lines of the operation, evicted in batches of OpLogDrain  *)
(* only when a push made the length exceed OpLogCap; and the scroll offset *)
(* is never beyond its length.                                             *)
C7_OperationLog ==
    app.mode.tag = "Operation" =>
        /\ Len(app.mode.logs) <= OpLogCap
        /\ app.mode.scroll <= Len(app.mode.logs)
        /\ IsSuffix(app.mode.logs, app.pushed)
        /\ (Len(SinceMarker(app.pushed)) - Len(app.mode.logs)) % OpLogDrain = 0
        /\ Len(SinceMarker(app.pushed)) > OpLogCap - OpLogDrain
              => Len(app.mode.logs) > OpLogCap - OpLogDrain
(* C7 witness: the user is at the top of OpLogCap lines (Home) when the     *)
(* next line evicts OpLogDrain of them: the scroll offset is clamped       *)
C7_Witness ==
    /\ app.mode.tag = "Operation"
    /\ Len(SinceMarker(app.pushed)) = OpLogCap + 1
    /\ Len(app.mode.logs) = OpLogCap + 1 - OpLogDrain
    /\ app.mode.scroll = Len(app.mode.logs)

(* C8: every element of available_filtered is an index into                *)
(* available_items, and the elements are strictly increasing.              *)
C8_FilteredInBounds ==
    LET f == app.available_filtered
    IN /\ \A j \in 1..Len(f) : f[j] >= 0 /\ f[j] < Len(app.available_items)
       /\ \A j \in 1..(Len(f) - 1) : f[j] < f[j + 1]
(* C8 witness: a filter that keeps two of three names *)
C8_Witness ==
    /\ app.available_filter # <<>>
    /\ Len(app.available_items) = 3
    /\ app.available_filtered = <<0, 1>>

(* C9 as stated: available_filtered is always the indices of the names     *)
(* that contain available_filter, in order.                                *)
C9_FilteredMatchesFilter ==
    \A i \in 0..(Len(app.available_items) - 1) :
        (\E j \in 1..Len(app.available_filtered) : app.available_filtered[j] = i)
            <=> Contains(app.available_items[i + 1], app.available_filter)

(* C10: applying AvailableList with N names leaves them as available_items  *)
(* and 0, 1, ..., N - 1 as available_filtered, for N = 0 as well.          *)
C10_LoadedIsIdentity ==
    Applied("AvailableList") =>
        /\ app.available_items = last[1].list
        /\ Len(app.available_filtered) = Len(last[1].list)
        /\ \A j \in 1..Len(last[1].list) : app.available_filtered[j] = j - 1
(* C10 witness: three names loaded while a filter is typed *)
C10_Witness ==
    /\ Applied("AvailableList")
    /\ Len(last[1].list) = 3
    /\ app.available_filter # <<>>

(* The key the step handled *)
Pressed(k) == last' = Some(KeyPress(k))
PressedAny == last' # None /\ last'[1].type = "Key"
(* a.available_filtered is exactly the indices of the names that contain    *)
(* a.available_filter, in the order of a.available_items                   *)
FilteredMatches(a) ==
    LET f == a.available_filtered
    IN /\ \A j \in 1..(Len(f) - 1) : f[j] < f[j + 1]
       /\ \A i \in 0..(Len(a.available_items) - 1) :
             (\E j \in 1..Len(f) : f[j] = i)
                 <=> Contains(a.available_items[i + 1], a.available_filter)
(* a.available_filtered is 0, 1, ..., Len(a.available_items) - 1 *)
FilteredIsAll(a) ==
    /\ Len(a.available_filtered) = Len(a.available_items)
    /\ \A j \in 1..Len(a.available_items) : a.available_filtered[j] = j - 1

(* C11: setting a filter text (a character or Backspace in the Search       *)
(* input, or Enter with focus Available) leaves available_filtered exactly *)
(* the indices of the names containing it, in order: filter "git" over     *)
(* git, gitk, vim gives git and gitk; 'F' in Normal mode then empties the  *)
(* filter text and leaves available_filtered the identity.                 *)
C11_FilterRoundTrip ==
    /\ FilterIndices(<<git, gitk, vim>>, git) = <<0, 1>>
    /\ [][/\ (/\ PressedAny
              /\ app.mode.tag = "Input"
              /\ app.mode.action = "Search"
              /\ IsChar(last'[1].key) \/ last'[1].key = "Backspace")
             => /\ app'.available_filter = app'.mode.buffer
                /\ FilteredMatches(app')
          /\ (/\ Pressed("Enter")
              /\ app.mode.tag = "Input"
              /\ app.mode.action = "Search"
              /\ app.focus = Available
              /\ Trim(app.mode.buffer) # <<>>)
             => /\ app'.available_filter = Trim(app.mode.buffer)
                /\ FilteredMatches(app')
          /\ (Pressed("F") /\ app.mode.tag = "Normal")
             => /\ app'.available_filter = <<>>
                /\ FilteredIsAll(app')]_vars
(* C11 witness: 'F' pressed with the selection on vim, the only match of   *)
(* the filter "v": the filter is empty and all three rows are listed       *)
C11_Witness ==
    /\ last = Some(KeyPress("F"))
    /\ app.available_items = <<git, gitk, vim>>
    /\ app.available_selected = 2
    /\ app.available_filter = <<>>
    /\ app.available_filtered = <<0, 1, 2>>

(* The outdated-check workers, and the messages of thread i in a channel *)
OutdatedIds(ths) == {i \in 1..Len(ths) : ths[i].kind = "outdated"}
From(q, i) == {j \in 1..Len(q) : q[j].from = i}

(* C12: a step that applies a BrewList spawns exactly one outdated-check    *)
(* worker, whatever the list, and no other step of the scenario spawns     *)
(* one; the worker's one step posts exactly one event, an OutdatedList or  *)
(* a Log, and ends it; an ended worker posts nothing.                      *)
C12_OneOutdatedCheckPerList ==
    [][/\ Cardinality(OutdatedIds(threads')) =
              Cardinality(OutdatedIds(threads))
                  + (IF last' # None /\ last'[1].type = "BrewList" THEN 1 ELSE 0)
       /\ \A i \in OutdatedIds(threads') \ OutdatedIds(threads) : threads'[i].pc = "run"
       /\ \A i \in OutdatedIds(threads) :
             /\ threads[i].pc = "done" =>
                   /\ threads'[i].pc = "done"
                   /\ Cardinality(From(chan', i)) <= Cardinality(From(chan, i))
             /\ (threads[i].pc = "run" /\ threads'[i].pc # "run") =>
                   /\ threads'[i].pc = "done"
                   /\ chan' = Append(chan, chan'[Len(chan')])
                   /\ chan'[Len(chan')].from = i
                   /\ chan'[Len(chan')].ev.type \in {"OutdatedList", "Log"}
             /\ (threads[i].pc = "run" /\ threads'[i].pc = "run") =>
                   Cardinality(From(chan', i)) = 0]_vars
(* C12 witness: an empty BrewList was applied and its worker has ended *)
C12_Witness ==
    /\ app.items = <<>>
    /\ ~app.loading_installed
    /\ \E i \in OutdatedIds(threads) : threads[i].pc = "done"

(* C13: a reload event replaces the list, whatever it held: after BrewList  *)
(* the installed items are exactly the list received, after OutdatedList   *)
(* the outdated items, after AvailableList the available items.            *)
C13_ReloadReplaces ==
    /\ Applied("BrewList") => app.items = last[1].list
    /\ Applied("OutdatedList") => app.outdated_items = last[1].list
    /\ Applied("AvailableList") => app.available_items = last[1].list
(* C13 witness: a second BrewList, [wget], then OutdatedList([wget]): one   *)
(* installed, one outdated                                                 *)
C13_Witness ==
    /\ last = Some(EvOutdatedList(<<wget>>))
    /\ Len(threads) = 2
    /\ Len(app.items) = 1 /\ app.items[1].name = wget
    /\ Len(app.outdated_items) = 1 /\ app.outdated_items[1] = wget

(* C15: applying ShowConfirm(action, name, idx) leaves the mode Confirm     *)
(* with exactly that action, name and idx, whatever the mode was; for the  *)
(* event the brew presence probe posts: InstallBrew, "Homebrew", None.     *)
C15_ShowConfirmSetsMode ==
    /\ ProbeEvent.action.kind = "InstallBrew"
    /\ ProbeEvent.name = <<"Homebrew">>
    /\ ProbeEvent.idx = None
    /\ Applied("ShowConfirm") =>
          /\ app.mode.tag = "Confirm"
          /\ app.mode.action = last[1].action
          /\ app.mode.name = last[1].name
          /\ app.mode.idx = last[1].idx
          /\ DOMAIN app.mode = {"tag", "action", "name", "idx"}
(* C15 witness: the probe's event applied during an operation, after a     *)
(* Confirm with an index                                                   *)
C15_Witness ==
    /\ last = Some(ProbeEvent)
    /\ app.operating
    /\ app.mode = [tag |-> "Confirm", action |-> ActInstallBrew, name |-> <<"Homebrew">>,
                   idx |-> None]

(* C14 as stated: the selections stay in bounds: selected is an index of    *)
(* items whenever items is not empty, and available_selected is an element *)
(* of available_filtered whenever that is not empty.                       *)
C14_SelectionsInBounds ==
    /\ app.items # <<>> => app.selected < Len(app.items)
    /\ app.available_filtered # <<>> =>
          \E j \in 1..Len(app.available_filtered) :
              app.available_filtered[j] = app.available_selected

(* The keys the transition table lists for the mode of a *)
Listed(a, k) ==
    CASE a.mode.tag = "Normal" ->
            k \in {"q", "?", "Tab", "j", "Down", "k", "Up", "i", "s", "f", "F", "r", "u", "o",
                   "R", "Enter"}
      [] a.mode.tag = "Input" ->
            \/ k \in {"Backspace", "Esc"}
            \/ IsChar(k)
            \/ k = "Enter" /\ Trim(a.mode.buffer) # <<>>
      [] a.mode.tag = "SearchResults" -> k \in {"j", "Down", "k", "Up", "Enter", "Esc", "?"}
      [] a.mode.tag = "Outdated" -> k \in {"j", "Down", "k", "Up", " ", "Enter", "Esc", "?"}
      [] a.mode.tag = "Confirm" -> k \in {"y", "Enter", "n", "Esc"}
      [] a.mode.tag = "Operation" ->
            k \in {"j", "Down", "k", "Up", "PageUp", "PageDown", "Home", "End", "Esc", "?"}
      [] OTHER -> TRUE
(* What a no-op leaves alone *)
SameView(a, b) ==
    /\ b.mode = a.mode /\ b.focus = a.focus
    /\ b.selected = a.selected /\ b.available_selected = a.available_selected
    /\ b.available_filter = a.available_filter /\ b.available_filtered = a.available_filtered
    /\ b.items = a.items /\ b.available_items = a.available_items
    /\ b.outdated_items = a.outdated_items /\ b.logs = a.logs

(* C16 as stated: outside Help, a key that the transition table does not    *)
(* list for the mode is a no-op: mode, focus, selections, filter, lists    *)
(* and logs are unchanged, and the only thread the iteration can start is  *)
(* the automatic details fetch that ends every iteration.                  *)
C16_UnlistedKeyIsNoOp ==
    [][(PressedAny /\ app.mode.tag # "Help" /\ ~Listed(app, last'[1].key))
          => /\ SameView(app, app')
             /\ \A i \in (Len(threads) + 1)..Len(threads') : threads'[i].kind = "info"]_vars

(* Thread i ends a Gateway call in this step: the runner's reload of the   *)
(* installed list, a loader's list call, or the one call of an outdated,   *)
(* search or detail worker                                                 *)
GatewayReturns(i) ==
    /\ i \in 1..Len(threads)
    /\ threads'[i].pc # threads[i].pc
    /\ \/ threads[i].kind = "runner" /\ threads[i].pc = "reload"
       \/ threads[i].kind = "loader" /\ threads[i].pc = "load"
       \/ threads[i].kind \in {"outdated", "search", "info"} /\ threads[i].pc = "run"
(* The events the step appended to the channel *)
Posted == IF Len(chan') > Len(chan) THEN SubSeq(chan', Len(chan) + 1, Len(chan')) ELSE <<>>

(* C17 as stated: a Gateway call of a background worker either succeeds,   *)
(* and the worker posts its result, or fails, and the worker posts a Log   *)
(* or Status event: no Gateway call ends with nothing posted.              *)
C17_FailuresAreReported ==
    [][\A i \in 1..Len(threads) : GatewayReturns(i) =>
          \E j \in 1..Len(Posted) : Posted[j].from = i]_vars

(* C18 as stated: while the focus and the cursor stay on one row and no    *)
(* installed list is applied, at most one detail fetch is issued for the   *)
(* row, whatever responses of earlier fetches arrive in between.           *)
C18_OneFetchPerRow == app.fetches <= 1

(* The step closes the Operation modal with Esc or '?' *)
ClosesOperation == app.mode.tag = "Operation" /\ (Pressed("Esc") \/ Pressed("?"))
(* The modal was closed while the operation runs *)
ClosedWhileOperating == app.operating /\ app.mode.tag = "Normal"

(* C19 as stated: closing the Operation modal with Esc or '?' is followed  *)
(* by the runner's OpEnd being applied.                                    *)
C19_ClosedLeadsToEndApplied == ClosedWhileOperating ~> AllEndsApplied
(* C19 amended: closing the Operation modal with Esc or '?' changes the    *)
(* mode to Normal and nothing else of the App but the status line (and the *)
(* memo of the automatic details loading), and stops no thread; operating  *)
(* stays true until an OpEnd is applied; an OpLog applied while the modal  *)
(* is closed is still pushed to the log tail; and the runner's OpEnd is    *)
(* eventually applied, unless the loop is left with 'q' before.            *)
C19_CloseKeepsOperation ==
    /\ [][ClosesOperation =>
            /\ app' = [app EXCEPT !.mode = Normal, !.status = app'.status,
                                  !.last_selected = app'.last_selected,
                                  !.fetches = app'.fetches]
            /\ app'.operating = app.operating
            /\ pc' = "run"
            /\ SubSeq(threads', 1, Len(threads)) = threads]_vars
    /\ [][(app.operating /\ ~app'.operating) => (last' # None /\ last'[1].type = "OpEnd")]_vars
    /\ [][(app.mode.tag # "Operation" /\ last' # None /\ last'[1].type = "OpLog") =>
            /\ app'.pushed = Append(app.pushed, last'[1].text)
            /\ app'.logs # <<>> /\ app'.logs[Len(app'.logs)] = last'[1].text]_vars
    /\ ClosedWhileOperating ~> (AllEndsApplied \/ pc = "quit")
(* C19 witness: an OpLog of the running operation applied after the modal  *)
(* was closed: the line is the last of the log tail                        *)
C19_Witness ==
    /\ ClosedWhileOperating
    /\ last = Some(EvOpLog(Pct50))
    /\ app.logs[Len(app.logs)] = Pct50
    /\ app.operation_percent = Some(50)

(* C20 as stated: the runner of a BulkUpgrade posts no BrewList *)
C20_BulkUpgradePostsNoReload ==
    \A i \in RunnerIds :
        threads[i].action.kind = "BulkUpgrade" => SentOf(threads[i], "BrewList") = {}
(* C20 amended: a runner posts at most one BrewList, and only right after  *)
(* the Status that reports the success of its subprocess; the runner of    *)
(* every brew verb may post it, BulkUpgrade included, and the runner of    *)
(* the Homebrew bootstrap never does.                                      *)
C20_ReloadAfterBrewSuccess ==
    \A i \in RunnerIds :
        LET t == threads[i]
        IN /\ Cardinality(SentOf(t, "BrewList")) <= 1
           /\ \A j \in SentOf(t, "BrewList") :
                 /\ t.action.kind \in {"Install", "Uninstall", "Upgrade", "BulkUpgrade"}
                 /\ j > 1
                 /\ t.sent[j - 1] = EvStatus(t.title \o <<" completed">>)
(* C20 witness: the reload of a successful `brew upgrade git vim` applied  *)
(* by the main loop                                                        *)
C20_Witness ==
    /\ Applied("BrewList")
    /\ \E i \in RunnerIds :
          /\ threads[i].action.kind = "BulkUpgrade"
          /\ threads[i].title = <<"brew ", "upgrade", " ">> \o git \o <<" ">> \o vim
          /\ SentOf(threads[i], "BrewList") # {}

----------------------------------------------------------------------------
(* The fields C21 names, of the App a handler leaves *)
Handled(a) ==
    <<a.mode, a.items, a.available_items, a.outdated_items, a.logs, a.operating,
      a.operation_percent, a.operation_status, a.last_selected>>

(* C21 as stated: an event the drain of App::run applies leaves the App as *)
(* App::handle_event leaves it when called with the same event in the same *)
(* state.                                                                  *)
C21_DrainIsHandleEvent ==
    [][(last' # None /\ last'[1].type # "Key") =>
          Handled(app') = Handled(OnEvent(app, last'[1], FALSE))]_vars

(* C22: the loop is left exactly by the steps that handle the key 'q' in   *)
(* mode Normal: a 'q' in any other mode, any other key and any event of a  *)
(* background thread leave it running.                                     *)
C22_QuitOnlyByQInNormal ==
    [][pc = "run" => (pc' = "quit" <=> (Pressed("q") /\ app.mode.tag = "Normal"))]_vars
(* C22 witness: the loop left with 'q' after an earlier 'q', typed into    *)
(* the Search input, had only joined the filter text                       *)
C22_Witness ==
    /\ pc = "quit"
    /\ last = Some(KeyPress("q"))
    /\ app.available_filter = <<"q">>

(* The threads the step started, and the runners among them *)
Started == SubSeq(threads', Len(threads) + 1, Len(threads'))
StartedRunners == SelectSeq(Started, LAMBDA t : t.kind = "runner")

(* C23: a key handled in mode Confirm leaves mode Normal; 'y' or Enter     *)
(* starts exactly one runner, for the action and the name of the Confirm,  *)
(* and no other key starts a runner; 'n' or Esc leaves status "Cancelled". *)
C23_ConfirmKeys ==
    [][(PressedAny /\ app.mode.tag = "Confirm") =>
          /\ app'.mode = Normal
          /\ SubSeq(threads', 1, Len(threads)) = threads
          /\ StartedRunners = IF last'[1].key \in {"y", "Enter"}
                              THEN <<Runner(app.mode.action, app.mode.name)>>
                              ELSE <<>>
          /\ last'[1].key \in {"n", "Esc"} => app'.status = <<"Cancelled">>]_vars
(* C23 witness: Enter on Confirm(Upgrade, git) has started its runner *)
C23_Witness ==
    /\ last = Some(KeyPress("Enter"))
    /\ app.mode = Normal
    /\ threads = <<Runner(ActUpgrade, git)>>

(* C24: a key handled in mode Help, whatever it is, leaves mode Normal and *)
(* changes nothing else: of the App only the status line, rebuilt by every *)
(* iteration, can differ; no thread is started and the loop goes on.       *)
C24_HelpAnyKey ==
    [][(PressedAny /\ app.mode.tag = "Help") =>
          /\ app' = [app EXCEPT !.mode = Normal, !.status = app'.status]
          /\ threads' = threads
          /\ chan' = chan
          /\ pc' = "run"]_vars
(* C24 witness: the key 'x' has closed the Help modal *)
C24_Witness ==
    /\ last = Some(KeyPress("x"))
    /\ app.mode = Normal
    /\ pc = "run"

(* The key handled in mode Input is a character: the key of last' *)
TypedChar == PressedAny /\ app.mode.tag = "Input" /\ last'[1].key \notin SpecialKeys

(* C25: a character typed in mode Input is appended to the buffer and the  *)
(* mode stays Input.  In a Search input the filter text becomes the new    *)
(* buffer, available_filtered is exactly the indices of the available      *)
(* names containing it, and available_selected becomes the first of them   *)
(* when there is one and is unchanged otherwise.  In an Install input the  *)
(* filter, available_filtered and available_selected are unchanged.        *)
C25_InputCharacter ==
    [][TypedChar =>
          LET buffer == Append(app.mode.buffer, last'[1].key)
          IN /\ app'.mode = Input(app.mode.action, buffer)
             /\ IF app.mode.action = "Search"
                THEN /\ app'.available_filter = buffer
                     /\ FilteredMatches(app')
                     /\ app'.available_selected =
                            IF app'.available_filtered # <<>> THEN app'.available_filtered[1]
                            ELSE app.available_selected
                ELSE /\ app'.available_filter = app.available_filter
                     /\ app'.available_filtered = app.available_filtered
                     /\ app'.available_selected = app.available_selected]_vars
(* C25 witness: 'v' typed into an empty Search input selects vim, the one  *)
(* match                                                                   *)
C25_Witness ==
    /\ last = Some(KeyPress("v"))
    /\ app.mode = Input("Search", <<"v">>)
    /\ app.available_filter = <<"v">>
    /\ app.available_filtered = <<1>>
    /\ app.available_selected = 1

(* C26 as stated: Backspace in mode Input removes the last character of    *)
(* the buffer, if any, and the mode stays Input; in a Search input the     *)
(* filter text becomes the new buffer, available_filtered is exactly the   *)
(* indices of the names containing it, and available_selected becomes the  *)
(* first of them when there is one.                                        *)
C26_InputBackspace ==
    [][(Pressed("Backspace") /\ app.mode.tag = "Input") =>
          LET old == app.mode.buffer
              buffer == IF old = <<>> THEN old ELSE SubSeq(old, 1, Len(old) - 1)
          IN /\ app'.mode = Input(app.mode.action, buffer)
             /\ app.mode.action = "Search" =>
                   /\ app'.available_filter = buffer
                   /\ FilteredMatches(app')
                   /\ app'.available_filtered # <<>> =>
                         app'.available_selected = app'.available_filtered[1]]_vars

(* The search workers and runners the step started *)
StartedWorkers == SelectSeq(Started, LAMBDA t : t.kind \in {"search", "runner"})
(* What Enter does in mode Input with the buffer's trimmed value *)
EnterEffect ==
    LET value == Trim(app.mode.buffer)
    IN /\ SubSeq(threads', 1, Len(threads)) = threads
       /\ IF app.mode.action = "Install"
          THEN /\ app'.mode = Confirm(ActInstall, value, None)
               /\ StartedWorkers = <<>>
          ELSE IF app.focus = Available
          THEN /\ app'.mode = Normal
               /\ app'.available_filter = value
               /\ FilteredMatches(app')
               /\ app'.available_filtered # <<>> =>
                     app'.available_selected = app'.available_filtered[1]
               /\ StartedWorkers = <<>>
          ELSE /\ app'.mode = Normal
               /\ StartedWorkers = <<SearchWorker(value)>>
(* A search worker ends by posting one event: its results, or a Log line *)
SearchPostsOnce ==
    \A i \in 1..Len(threads) :
        (threads[i].kind = "search" /\ threads'[i].pc # threads[i].pc) =>
            /\ Len(Posted) = 1
            /\ Posted[1].from = i
            /\ Posted[1].ev.type \in {"SearchResults", "Log"}

C28_InputEscDiscards ==
    [][(Pressed("Esc") /\ app.mode.tag = "Input" /\ app.entered # None) =>
          /\ app'.mode = Normal
          /\ StartedWorkers = <<>>
          /\ <<app'.available_filter, app'.available_filtered, app'.available_selected>>
                = app.entered[1]]_vars

(* C29 as stated, for Enter: Enter in the SearchResults modal opens         *)
(* Confirm(Install) without an index.                                      *)
C29_EnterOpensConfirm ==
    [][(Pressed("Enter") /\ app.mode.tag = "SearchResults") =>
          /\ app'.mode.tag = "Confirm"
          /\ app'.mode.action = ActInstall
          /\ app'.mode.idx = None]_vars
(* C29 amended: an applied SearchResults event opens the SearchResults     *)
(* modal on its results with selected 0; while the modal is open selected  *)
(* is an index of results, or 0 when there is none; j, k and the arrows    *)
(* leave the modal open on the same results; Enter opens Confirm(Install)  *)
(* for the selected result without an index, and only closes the modal     *)
(* when there is no result; Esc and '?' close the modal.                   *)
C29_SearchResultsModal ==
    /\ [](app.mode.tag = "SearchResults" =>
             \/ app.mode.selected < Len(app.mode.results)
             \/ app.mode.results = <<>> /\ app.mode.selected = 0)
    /\ [][(last' # None /\ last'[1].type = "SearchResults") =>
             app'.mode = SearchResults(last'[1].results, 0)]_vars
    /\ [][(PressedAny /\ app.mode.tag = "SearchResults") =>
             LET m == app.mode
                 k == last'[1].key
             IN /\ k \in {"j", "k", "Down", "Up"} =>
                      app'.mode.tag = "SearchResults" /\ app'.mode.results = m.results
                /\ k = "Enter" =>
                      app'.mode = IF m.results = <<>> THEN Normal
                                  ELSE Confirm(ActInstall, m.results[m.selected + 1], None)
                /\ k \in {"Esc", "?"} => app'.mode = Normal]_vars
(* C29 witness: Enter on the second of the results [git, gitk], reached    *)
(* with 'j', has opened Confirm(Install, gitk)                             *)
C29_Witness ==
    /\ last = Some(KeyPress("Enter"))
    /\ app.mode = Confirm(ActInstall, gitk, None)

(* C30: 'o' in mode Normal opens the Outdated modal on the outdated list   *)
(* as it is, with cursor 0 and nothing checked.  While the modal is open,  *)
(* checked is as long as packages and cursor is an index of packages, or 0 *)
(* when there is none; a step that leaves it open leaves packages as they  *)
(* are, whatever key or event it handles, and changes checked only if the  *)
(* key is Space, which toggles the entry at the cursor and no other.       *)
C30_OutdatedModal ==
    /\ [](app.mode.tag = "Outdated" =>
             /\ Len(app.mode.checked) = Len(app.mode.packages)
             /\ \/ app.mode.cursor < Len(app.mode.packages)
                \/ app.mode.packages = <<>> /\ app.mode.cursor = 0)
    /\ [][(Pressed("o") /\ app.mode.tag = "Normal") =>
             /\ app'.mode.tag = "Outdated"
             /\ app'.mode.packages = app.outdated_items
             /\ app'.mode.cursor = 0
             /\ \A i \in 1..Len(app'.mode.checked) : ~app'.mode.checked[i]]_vars
    /\ [][(app.mode.tag = "Outdated" /\ app'.mode.tag = "Outdated") =>
             LET m == app.mode
             IN /\ app'.mode.packages = m.packages
                /\ IF Pressed(" ") /\ m.packages # <<>>
                   THEN /\ app'.mode.cursor = m.cursor
                        /\ app'.mode.checked =
                               [i \in 1..Len(m.checked) |->
                                   IF i = m.cursor + 1 THEN ~m.checked[i] ELSE m.checked[i]]
                   ELSE app'.mode.checked = m.checked]_vars
(* C30 witness: the modal open on [git, vim] with vim checked, after an    *)
(* OutdatedList event has replaced the outdated list by another            *)
C30_Witness ==
    /\ app.mode.tag = "Outdated"
    /\ app.mode.packages = <<git, vim>>
    /\ app.mode.checked = <<FALSE, TRUE>>
    /\ app.outdated_items # <<git, vim>>
    /\ Applied("OutdatedList")

----------------------------------------------------------------------------
(* The Outdated modal's Enter *)
(* The packages of modal m whose box is checked, in the order of the list *)
CheckedInOrder(m) ==
    LET idxs == {i \in 1..Len(m.packages) : m.checked[i]}
        nth(j) == CHOOSE i \in idxs : Cardinality({x \in idxs : x < i}) = j - 1
    IN [j \in 1..Cardinality(idxs) |-> m.packages[nth(j)]]

(* C31: Enter in the Outdated modal, with at least one package checked,    *)
(* opens Confirm(BulkUpgrade(names), .., no index), names being the        *)
(* checked packages in list order and no other; with none checked the      *)
(* mode, payload included, stays as it is.                                 *)
C31_OutdatedEnter ==
    [][(Pressed("Enter") /\ app.mode.tag = "Outdated") =>
          LET names == CheckedInOrder(app.mode)
          IN IF names # <<>>
             THEN /\ app'.mode.tag = "Confirm"
                  /\ app'.mode.action = ActBulkUpgrade(names)
                  /\ app'.mode.idx = None
             ELSE app'.mode = app.mode]_vars
(* C31 witness: of [git, vim] only vim was checked, and Enter has opened   *)
(* the Confirm for it                                                      *)
C31_Witness ==
    /\ last = Some(KeyPress("Enter"))
    /\ app.mode.tag = "Confirm"
    /\ app.mode.action = ActBulkUpgrade(<<vim>>)
    /\ app.outdated_items = <<git, vim>>

----------------------------------------------------------------------------
(* C32: while the Operation modal is open its scroll offset is between 0   *)
(* and the number of its log lines.  Up/k adds one, Down/j takes one,      *)
(* PageUp / PageDown move by PageSize, all kept within 0 and the number of *)
(* lines; Home sets it to the number of lines and End to 0; none of these  *)
(* keys changes the title or the lines.                                    *)
C32_OperationScroll ==
    /\ [](app.mode.tag = "Operation" =>
             app.mode.scroll >= 0 /\ app.mode.scroll <= Len(app.mode.logs))
    /\ [][(PressedAny /\ app.mode.tag = "Operation"
              /\ last'[1].key \in {"Up", "k", "Down", "j", "PageUp", "PageDown", "Home", "End"}) =>
             LET m == app.mode
                 n == Len(m.logs)
                 k == last'[1].key
             IN /\ app'.mode.tag = "Operation"
                /\ app'.mode.title = m.title
                /\ app'.mode.logs = m.logs
                /\ app'.mode.scroll =
                       CASE k \in {"Up", "k"} -> Min(m.scroll + 1, n)
                         [] k \in {"Down", "j"} -> IF m.scroll >= 1 THEN m.scroll - 1 ELSE 0
                         [] k = "PageUp" -> Min(m.scroll + 10, n)
                         [] k = "PageDown" -> IF m.scroll >= 10 THEN m.scroll - 10 ELSE 0
                         [] k = "Home" -> n
                         [] k = "End" -> 0]_vars
(* C32 witness: from the top of more than ten lines, PageDown has moved    *)
(* the offset ten lines down                                               *)
C32_Witness ==
    /\ last = Some(KeyPress("PageDown"))
    /\ app.mode.tag = "Operation"
    /\ app.mode.scroll > 0
    /\ app.mode.scroll = Len(app.mode.logs) - 10

----------------------------------------------------------------------------
(* C36: operation_percent is Some only while an operation is in progress:  *)
(* whenever operating is false, operation_percent is None.                 *)
C36_PercentOnlyWhileOperating ==
    ~app.operating => app.operation_percent = None

----------------------------------------------------------------------------
(* Browsing in mode Normal *)
(* The detail fetches the step starts *)
StartedFetches == SelectSeq(Started, LAMBDA t : t.kind = "info")
(* The cursor of the focused column, and the name of the row under it *)
Cursor(a) == IF a.focus = Installed THEN a.selected ELSE a.available_selected
HasRow(a) ==
    IF a.focus = Installed THEN a.selected < Len(a.items)
    ELSE a.available_selected < Len(a.available_items)
RowName(a) ==
    IF a.focus = Installed THEN a.items[a.selected + 1].name
    ELSE a.available_items[a.available_selected + 1]

(* C33: Enter in mode Normal with a row under the cursor opens             *)
(* Confirm(Uninstall, name, index) when the focus is Installed and         *)
(* Confirm(Install, name, index) when it is Available, name and index      *)
(* being those of the row; the iteration starts a detail fetch for the row *)
(* if and only if last_selected differed from (focus, index), and leaves   *)
(* last_selected at (focus, index).  With no row under the cursor nothing  *)
(* changes and no thread is started.                                       *)
C33_NormalEnter ==
    [][(Pressed("Enter") /\ app.mode.tag = "Normal") =>
          IF HasRow(app)
          THEN /\ app'.mode = Confirm(IF app.focus = Installed THEN ActUninstall ELSE ActInstall,
                                      RowName(app), Some(Cursor(app)))
               /\ app'.last_selected = Some(<<app.focus, Cursor(app)>>)
               /\ Started = IF app.last_selected # Some(<<app.focus, Cursor(app)>>)
                            THEN <<InfoWorker(app.focus, RowName(app), Cursor(app))>>
                            ELSE <<>>
               /\ app'.focus = app.focus
               /\ app'.selected = app.selected
               /\ app'.available_selected = app.available_selected
          ELSE /\ SameView(app, app')
               /\ app'.last_selected = app.last_selected
               /\ Started = <<>>]_vars
(* C33 witness: the reload has left [vim], and Enter has opened the        *)
(* Confirm for row 0 with the fetch of vim's detail issued                 *)
C33_Witness ==
    /\ last = Some(KeyPress("Enter"))
    /\ app.mode = Confirm(ActUninstall, vim, Some(0))
    /\ app.last_selected = Some(<<Installed, 0>>)
    /\ \E i \in 1..Len(threads) : threads[i] = InfoWorker(Installed, vim, 0)

(* C34: in mode Normal, with an Installed row selected, 'r' opens          *)
(* Confirm(Uninstall, name, index) and 'u' opens Confirm(Upgrade, name,    *)
(* index), name and index being those of items[selected]; when no          *)
(* Installed row is selected (the list is empty, the cursor is out of      *)
(* range, or the focus is Available) the key is a no-op.                   *)
C34_RemoveAndUpgrade ==
    [][((Pressed("r") \/ Pressed("u")) /\ app.mode.tag = "Normal") =>
          IF app.focus = Installed /\ app.selected < Len(app.items)
          THEN app'.mode = Confirm(IF Pressed("r") THEN ActUninstall ELSE ActUpgrade,
                                   app.items[app.selected + 1].name, Some(app.selected))
          ELSE SameView(app, app')]_vars

(* The 0-based positions of x in the filtered view f *)
Places(f, x) == {p \in 0..(Len(f) - 1) : f[p + 1] = x}

(* C35: j/Down and k/Up in mode Normal move only the cursor of             *)
(* the focused column, and clamp it.  With focus Installed and a non-empty *)
(* list the cursor moves by one and ends within 0..len-1.  With focus      *)
(* Available and a non-empty filtered view the cursor ends on an element   *)
(* of the view: the next (previous) one in the view's order when it was on *)
(* one, the last (first) staying where it is.  The other column's cursor,  *)
(* the focus and the mode are unchanged.                                   *)
C35_Navigation ==
    [][(PressedAny /\ app.mode.tag = "Normal" /\ last'[1].key \in {"j", "Down", "k", "Up"}) =>
          LET down == last'[1].key \in {"j", "Down"}
              f == app.available_filtered
              n == Len(app.items)
          IN /\ app'.mode = app.mode
             /\ app'.focus = app.focus
             /\ IF app.focus = Installed
                THEN /\ app'.available_selected = app.available_selected
                     /\ n > 0 =>
                           /\ app'.selected < n
                           /\ app'.selected = (IF down THEN Min(app.selected + 1, n - 1)
                                               ELSE SatSub(app.selected, 1))
                ELSE /\ app'.selected = app.selected
                     /\ f # <<>> =>
                           /\ Places(f, app'.available_selected) # {}
                           /\ \A p \in Places(f, app.available_selected) :
                                 app'.available_selected =
                                     f[(IF down THEN Min(p + 1, Len(f) - 1) ELSE SatSub(p, 1)) + 1]]_vars

----------------------------------------------------------------------------
(* The operations in flight: the runners whose OpStart the loop has        *)
(* applied and whose OpEnd it has not                                      *)
StartApplied(i) ==
    /\ SentOf(threads[i], "OpStart") # {}
    /\ \A j \in 1..Len(chan) : ~(chan[j].from = i /\ chan[j].ev.type = "OpStart")
InFlight == {i \in RunnerIds : StartApplied(i) /\ threads[i].acked = 0}

(* C37: operating is true if and only if at least one operation has had   *)
(* its OpStart applied and its OpEnd not yet applied, also when a second   *)
(* Confirm is accepted while an earlier operation is still running.        *)
C37_OperatingIffInFlight ==
    pc = "run" => (app.operating <=> InFlight # {})

----------------------------------------------------------------------------
(* The names of the installed rows, in order *)
Names(items) == [i \in 1..Len(items) |-> items[i].name]

(* C38: applying BrewInfo(info, idx) never changes which package sits at a *)
(* row: the names of items are the same, in the same order, before and     *)
(* after, however detail fetches and reloads interleave; an idx outside    *)
(* items leaves items unchanged.                                           *)
C38_BrewInfoKeepsNames ==
    [][(last' # None /\ last'[1].type = "BrewInfo") =>
          /\ Names(app'.items) = Names(app.items)
          /\ last'[1].idx >= Len(app.items) => app'.items = app.items]_vars

----------------------------------------------------------------------------
(* C39: a Confirm modal is only left through a key press: while the mode   *)
(* is Confirm(action, name, index), a step that handles no key leaves the  *)
(* mode exactly as it is, whatever event it applies.                       *)
C39_ConfirmLeftOnlyByKey ==
    [][(app.mode.tag = "Confirm" /\ ~PressedAny) => app'.mode = app.mode]_vars

----------------------------------------------------------------------------
(* The step is the end of an iteration of the loop: the channel was found  *)
(* empty, a key was handled or the poll timed out, and run did not return  *)
Ticked ==
    /\ pc = "run" /\ pc' = "run"
    /\ chan = <<>> /\ chan' = <<>>
    /\ SubSeq(threads', 1, Len(threads)) = threads
    /\ last' = None \/ PressedAny

(* C40: at the end of every iteration of the loop, if there is a row under *)
(* the cursor of the focused column, last_selected is (focus, cursor) and  *)
(* a detail fetch has been issued for that row; the iteration starts at    *)
(* most one detail fetch.                                                  *)
C40_DetailFollowsCursor ==
    [][Ticked =>
          /\ HasRow(app') =>
                /\ app'.last_selected = Some(<<app'.focus, Cursor(app')>>)
                /\ \E i \in 1..Len(threads') :
                      /\ threads'[i].kind = "info"
                      /\ threads'[i].focus = app'.focus
                      /\ threads'[i].name = RowName(app')
                      /\ threads'[i].idx = Cursor(app')
          /\ Len(StartedFetches) <= 1]_vars
(* C40 witness: with the view filtered by "g" the cursor has moved from    *)
(* git to wget, and the fetch for wget's detail is issued                  *)
C40_Witness ==
    /\ last = Some(KeyPress("j"))
    /\ app.focus = Available
    /\ app.available_filtered = <<0, 2>>
    /\ app.available_selected = 2
    /\ app.last_selected = Some(<<Available, 2>>)
    /\ threads[Len(threads)] = InfoWorker(Available, wget, 2)

====
